---- MODULE Spec2Model ----
(***************************************************************************)
(* Model of the SystemVerilog -> Zuspec IR lowering pass (zuspec.fe.sv):   *)
(* the diagnostic log (ErrorReporter), TypeMapper, ExprMapper, StmtMapper, *)
(* FunctionMapper, ClassMapper and the SVMapper orchestrator.              *)
(*                                                                         *)
(* Conventions.  A Python str is a sequence of string tokens, so that an   *)
(* f-string is a concatenation (\o) and str.lower() acts on letters; a     *)
(* type name is spelled letter by letter.  An Optional[str] that is None   *)
(* is the empty sequence, an Optional[int]/Optional[bool] is <<>> or <<v>>.*)
(* Every object (foreign syntax node or IR node) is a record with a `kind` *)
(* field; Python's None for an object is the record None.  hasattr(n, a)   *)
(* is a \in DOMAIN n.  Every lowering operator returns [out |-> the        *)
(* diagnostics it reports, in order, ret |-> the returned value]; the      *)
(* action that calls it appends `out` to the shared log.                   *)
(***************************************************************************)
EXTENDS Integers, Sequences, FiniteSets, TLC

VARIABLES
    config,      \* SVMapper.config: the SVToZuspecConfig every mapper holds
    errors,      \* ErrorReporter.errors: the diagnostic log
    classes,     \* SVMapper.classes: the class result list
    compilation, \* SVParser.compilation: the tree of the last parse, or None
    call,        \* the last operation: its name, inputs, returned value, log before
    reported     \* ghost: error-severity reports since creation or the last clear()

vars == <<config, errors, classes, compilation, call, reported>>

-----------------------------------------------------------------------------
(* Bounds *)

\* ErrorReporter operations are issued while the log is shorter than this.
MaxLog == 3
\* A component is called on a log that holds at most this many earlier reports.
MaxPrior == 1

-----------------------------------------------------------------------------
(* Python values *)

None == [kind |-> "None"]
NoneStr == <<>>
NoneVal == <<>>
Some(v) == <<v>>
Str(s) == <<s>>

Digits == <<"0","1","2","3","4","5","6","7","8","9">>

\* What a call has reported before it reports anything.
NoReports == <<>>

\* `x = value` followed by the rest of the function body, In(x).
Bind(value, In(_)) == In(value)

\* `sub` occurs in `s` (Python's `sub in s` on strings).
Contains(s, sub) ==
    \E i \in 0..(Len(s) - Len(sub)) : SubSeq(s, i + 1, i + Len(sub)) = sub

UpperOf ==
    [c \in {"a","b","c","e","g","h","i","k","l","n","o","r","s","t","u","w","y","_","[","]"," "} |->
        CASE c = "a" -> "A" [] c = "b" -> "B" [] c = "c" -> "C" [] c = "e" -> "E"
          [] c = "g" -> "G" [] c = "h" -> "H" [] c = "i" -> "I" [] c = "k" -> "K"
          [] c = "l" -> "L" [] c = "n" -> "N" [] c = "o" -> "O" [] c = "r" -> "R"
          [] c = "s" -> "S" [] c = "t" -> "T" [] c = "u" -> "U" [] c = "w" -> "W"
          [] c = "y" -> "Y" [] OTHER -> c]

\* str.lower() on one letter: an upper-case letter becomes its lower-case letter.
LowerChar(c) ==
    IF \E l \in DOMAIN UpperOf : UpperOf[l] = c /\ l # c
    THEN CHOOSE l \in DOMAIN UpperOf : UpperOf[l] = c /\ l # c
    ELSE c

\* Mutant of lower: the name is compared as written.
lower_AsWritten(s) == s

lower(s) == [i \in 1..Len(s) |-> LowerChar(s[i])]

-----------------------------------------------------------------------------
(* error.py: TranslationError and ErrorReporter *)

TranslationError(severity, message, file_path, line, column, context, suggestion) ==
    [severity |-> severity, message |-> message, file_path |-> file_path,
     line |-> line, column |-> column, context |-> context, suggestion |-> suggestion]

error(log, message, file_path, line, column, context, suggestion) ==
    Append(log, TranslationError("ERROR", message, file_path, line, column,
                                 context, suggestion))

warning(log, message, file_path, line, column, context, suggestion) ==
    Append(log, TranslationError("WARNING", message, file_path, line, column,
                                 context, suggestion))

\* error(message) and error(message, suggestion=...) as the mappers call them.
\* Mutant of error_msg: the report is filed as a warning.
error_msg_AsWarning(log, message) ==
    warning(log, message, NoneStr, NoneVal, NoneVal, NoneStr, NoneStr)

error_msg(log, message) ==
    error(log, message, NoneStr, NoneVal, NoneVal, NoneStr, NoneStr)

error_sugg(log, message, suggestion) ==
    error(log, message, NoneStr, NoneVal, NoneVal, NoneStr, suggestion)

warning_msg(log, message) ==
    warning(log, message, NoneStr, NoneVal, NoneVal, NoneStr, NoneStr)

\* Mutant of has_errors: any entry counts, whatever its severity.
has_errors_AnySeverity(log) == Len(log) > 0

has_errors(log) == \E i \in 1..Len(log) : log[i].severity = "ERROR"

get_errors(log) == SelectSeq(log, LAMBDA e : e.severity = "ERROR")

get_warnings(log) == SelectSeq(log, LAMBDA e : e.severity = "WARNING")

\* Mutant of clear: only the error-severity entries are dropped.
clear_ErrorsOnly(log) == SelectSeq(log, LAMBDA e : e.severity = "WARNING")

clear(log) == <<>>

\* str(n) of a natural number, digit by digit.
RECURSIVE str_int(_)
str_int(n) ==
    IF n < 10 THEN <<Digits[n + 1]>> ELSE str_int(n \div 10) \o <<Digits[(n % 10) + 1]>>

\* TranslationError.__str__; "\n" is one token of the text.
__str__(self) ==
    LET severity_str == IF self.severity = "ERROR" THEN Str("ERROR") ELSE Str("WARNING")
        location ==
            IF self.file_path # NoneStr
            THEN Str(" at ") \o self.file_path
                 \o (IF self.line # NoneVal
                     THEN Str(":") \o str_int(self.line[1])
                          \o (IF self.column # NoneVal
                              THEN Str(":") \o str_int(self.column[1])
                              ELSE <<>>)
                     ELSE <<>>)
            ELSE <<>>
    IN severity_str \o Str(": ") \o self.message \o location
       \o (IF self.context # NoneStr
           THEN <<"\n", "  Context: ">> \o self.context ELSE <<>>)
       \o (IF self.suggestion # NoneStr
           THEN <<"\n", "  Suggestion: ">> \o self.suggestion ELSE <<>>)

\* "\n\n".join(lines)
RECURSIVE join(_)
join(lines) ==
    IF lines = <<>> THEN <<>>
    ELSE IF Len(lines) = 1 THEN lines[1]
    ELSE join(SubSeq(lines, 1, Len(lines) - 1)) \o <<"\n", "\n">> \o lines[Len(lines)]

\* Mutant of report: the entries are joined by a single newline.
RECURSIVE report_SingleNewline(_)
report_SingleNewline(log) ==
    IF log = <<>> THEN Str("No errors or warnings")
    ELSE IF Len(log) = 1 THEN __str__(log[1])
    ELSE report_SingleNewline(SubSeq(log, 1, Len(log) - 1))
         \o <<"\n">> \o __str__(log[Len(log)])

\* ErrorReporter.report
report(log) ==
    IF log = <<>> THEN Str("No errors or warnings")
    ELSE join([i \in 1..Len(log) |-> __str__(log[i])])

\* The number of error-severity entries in a sequence of diagnostics.
NumErrors(log) == Len(get_errors(log))

-----------------------------------------------------------------------------
(* config.py: SVToZuspecConfig *)

SVToZuspecConfig(strict_mode, ignore_covergroups, ignore_assertions, ignore_list, warn_only) ==
    [strict_mode |-> strict_mode, ignore_covergroups |-> ignore_covergroups,
     ignore_assertions |-> ignore_assertions, ignore_list |-> ignore_list,
     warn_only |-> warn_only]

DefaultConfig == SVToZuspecConfig(TRUE, TRUE, FALSE, <<>>, FALSE)

Configs ==
    { SVToZuspecConfig(s, g, a, l, w) :
        s \in BOOLEAN, g \in BOOLEAN, a \in BOOLEAN, l \in {<<>>, <<"tmp_*">>},
        w \in BOOLEAN }

-----------------------------------------------------------------------------
(* The last operation *)

NoCall == [op |-> "none", pre |-> <<>>, ret |-> None]

\* The entries the last operation appended to the log.
Appended == SubSeq(errors, Len(call.pre) + 1, Len(errors))

\* The last operation kept every earlier entry of the log in place.
KeptLog == Len(errors) >= Len(call.pre) /\ SubSeq(errors, 1, Len(call.pre)) = call.pre

\* The state after a mapper call `what` that returned r = [out, ret]: the reports
\* are appended to the shared log.
Called(what, r) ==
    /\ errors' = errors \o r.out
    /\ reported' = reported + NumErrors(r.out)
    /\ call' = what @@ [pre |-> errors, ret |-> r.ret]
    /\ UNCHANGED <<config, classes, compilation>>

-----------------------------------------------------------------------------
(* The diagnostic log on its own: error(), warning(), clear() *)

Messages == {Str("m1"), Str("m2"), Str("m3")}

InitLog ==
    /\ config = DefaultConfig
    /\ errors = <<>>
    /\ classes = <<>>
    /\ compilation = None
    /\ call = NoCall
    /\ reported = 0

\* error(m) / warning(m) issued while the log holds fewer than `bound` entries.
ReportErrorUpTo(bound) ==
    \E m \in Messages :
        /\ Len(errors) < bound
        /\ errors' = error(errors, m, NoneStr, NoneVal, NoneVal, NoneStr, NoneStr)
        /\ reported' = reported + 1
        /\ call' = [op |-> "error", pre |-> errors, ret |-> None]
        /\ UNCHANGED <<config, classes, compilation>>

ReportWarningUpTo(bound) ==
    \E m \in Messages :
        /\ Len(errors) < bound
        /\ errors' = warning(errors, m, NoneStr, NoneVal, NoneVal, NoneStr, NoneStr)
        /\ reported' = reported
        /\ call' = [op |-> "warning", pre |-> errors, ret |-> None]
        /\ UNCHANGED <<config, classes, compilation>>

ReportError == ReportErrorUpTo(MaxLog)

ReportWarning == ReportWarningUpTo(MaxLog)

Clear ==
    /\ errors # <<>>
    /\ errors' = clear(errors)
    /\ reported' = 0
    /\ call' = [op |-> "clear", pre |-> errors, ret |-> None]
    /\ UNCHANGED <<config, classes, compilation>>

\* error() / warning() called with a location, a context or a suggestion.
Located ==
    {TranslationError("ERROR", Str("m1"), Str("a.sv"), NoneVal, NoneVal, NoneStr, Str("fix")),
     TranslationError("WARNING", Str("m2"), Str("a.sv"), Some(12), NoneVal, Str("ctx"), NoneStr),
     TranslationError("ERROR", Str("m3"), Str("a.sv"), Some(12), Some(7), Str("ctx"), Str("fix")),
     TranslationError("ERROR", Str("m1"), NoneStr, Some(12), NoneVal, Str("ctx"), NoneStr)}

ReportLocated ==
    \E e \in Located :
        /\ Len(errors) < MaxLog
        /\ errors' = (IF e.severity = "ERROR"
                      THEN error(errors, e.message, e.file_path, e.line, e.column,
                                 e.context, e.suggestion)
                      ELSE warning(errors, e.message, e.file_path, e.line, e.column,
                                   e.context, e.suggestion))
        /\ reported' = reported + (IF e.severity = "ERROR" THEN 1 ELSE 0)
        /\ call' = [op |-> IF e.severity = "ERROR" THEN "error" ELSE "warning",
                    pre |-> errors, ret |-> None]
        /\ UNCHANGED <<config, classes, compilation>>

\* The operations that read the log: has_errors(), get_errors(), get_warnings()
\* and report().
QueryOps == {"has_errors", "get_errors", "get_warnings", "report"}

Query ==
    \E q \in QueryOps :
        /\ call' = [op |-> q, pre |-> errors,
                    ret |-> CASE q = "has_errors" -> has_errors(errors)
                              [] q = "get_errors" -> get_errors(errors)
                              [] q = "get_warnings" -> get_warnings(errors)
                              [] q = "report" -> report(errors)]
        /\ UNCHANGED <<config, errors, classes, compilation, reported>>

\* A component is exercised on a log that earlier reports have filled: the
\* reports come first, then one call of the component.
LogOps == {"none", "error", "warning"}

PriorError == call.op \in LogOps /\ ReportErrorUpTo(MaxPrior)

PriorWarning == call.op \in LogOps /\ ReportWarningUpTo(MaxPrior)

NextLog == ReportError \/ ReportWarning \/ ReportLocated \/ Clear \/ Query

SpecLog == InitLog /\ [][NextLog]_vars

-----------------------------------------------------------------------------
(* type_mapper.py: TypeMapper *)

W_logic == <<"l","o","g","i","c">>
W_reg == <<"r","e","g">>
W_integer == <<"i","n","t","e","g","e","r">>
W_bit == <<"b","i","t">>
W_byte == <<"b","y","t","e">>
W_shortint == <<"s","h","o","r","t","i","n","t">>
W_int == <<"i","n","t">>
W_longint == <<"l","o","n","g","i","n","t">>
W_string == <<"s","t","r","i","n","g">>
W_real == <<"r","e","a","l">>
W_unknown_type == <<"u","n","k","n","o","w","n","_","t","y","p","e">>

DataTypeInt(bits, signed) == [kind |-> "DataTypeInt", bits |-> bits, signed |-> signed]

\* Mutant of _suggest_2state_replacement: the table is skipped, every name gets
\* the fallback text.
_suggest_2state_replacement_Fallback(type_name) ==
    Str("Use a 2-state type (bit, int, byte, etc.)")

_suggest_2state_replacement(type_name) ==
    IF type_name = W_logic THEN Str("Use 2-state type: ") \o W_bit
    ELSE IF type_name = W_reg THEN Str("Use 2-state type: ") \o W_bit
    ELSE IF type_name = W_integer THEN Str("Use 2-state type: ") \o W_int
    ELSE Str("Use a 2-state type (bit, int, byte, etc.)")

is_4state_type(type_name) == lower(type_name) \in {W_logic, W_reg, W_integer}

\* Mutant of map_builtin_type: a name outside the table falls back to int.
map_builtin_type_FallbackInt(type_name, width, signed, file_path, line, column) ==
    LET type_name_lower == lower(type_name) IN
    CASE type_name_lower \in {W_logic, W_reg, W_integer} ->
            [out |-> error(NoReports,
                           Str("4-state type '") \o type_name \o Str("' not supported"),
                           file_path, line, column, type_name,
                           _suggest_2state_replacement(type_name_lower)),
             ret |-> None]
      [] type_name_lower = W_bit ->
            [out |-> NoReports,
             ret |-> DataTypeInt(IF width # NoneVal THEN width[1] ELSE 1,
                                 IF signed # NoneVal THEN signed[1] ELSE FALSE)]
      [] type_name_lower = W_byte -> [out |-> NoReports, ret |-> DataTypeInt(8, TRUE)]
      [] type_name_lower = W_shortint -> [out |-> NoReports, ret |-> DataTypeInt(16, TRUE)]
      [] type_name_lower = W_longint -> [out |-> NoReports, ret |-> DataTypeInt(64, TRUE)]
      [] OTHER -> [out |-> NoReports, ret |-> DataTypeInt(32, TRUE)]

map_builtin_type(type_name, width, signed, file_path, line, column) ==
    LET type_name_lower == lower(type_name) IN
    CASE type_name_lower \in {W_logic, W_reg, W_integer} ->
            [out |-> error(NoReports,
                           Str("4-state type '") \o type_name \o Str("' not supported"),
                           file_path, line, column, type_name,
                           _suggest_2state_replacement(type_name_lower)),
             ret |-> None]
      [] type_name_lower = W_bit ->
            [out |-> NoReports,
             ret |-> DataTypeInt(IF width # NoneVal THEN width[1] ELSE 1,
                                 IF signed # NoneVal THEN signed[1] ELSE FALSE)]
      [] type_name_lower = W_byte -> [out |-> NoReports, ret |-> DataTypeInt(8, TRUE)]
      [] type_name_lower = W_shortint -> [out |-> NoReports, ret |-> DataTypeInt(16, TRUE)]
      [] type_name_lower = W_int -> [out |-> NoReports, ret |-> DataTypeInt(32, TRUE)]
      [] type_name_lower = W_longint -> [out |-> NoReports, ret |-> DataTypeInt(64, TRUE)]
      [] OTHER ->
            [out |-> error(NoReports, Str("Unsupported type '") \o type_name \o Str("'"),
                           file_path, line, column, NoneStr, NoneStr),
             ret |-> None]

-----------------------------------------------------------------------------
(* The type mapper on its own: map_builtin_type(type_name, width, signed) *)

\* `w` with the letters at the positions in S in upper case.
Toggle(w, S) == [i \in 1..Len(w) |-> IF i \in S THEN UpperOf[w[i]] ELSE w[i]]

\* Letter-casings of `w`: at most one letter upper-case, or at most one lower-case
\* (every casing of a three-letter word).
Casings(w) ==
    { Toggle(w, S) :
        S \in { T \in SUBSET (1..Len(w)) :
                  Cardinality(T) <= 1 \/ Cardinality((1..Len(w)) \ T) <= 1 } }

FourStateWords == {W_logic, W_reg, W_integer}
TwoStateWords == {W_bit, W_byte, W_shortint, W_int, W_longint}
OtherWords == {W_string, W_real, W_unknown_type, <<"S","t","r","i","n","g">>}

TypeNames ==
    UNION { Casings(w) : w \in FourStateWords \cup TwoStateWords } \cup OtherWords

Widths == {NoneVal, Some(8)}
Signs == {NoneVal, Some(TRUE), Some(FALSE)}

InitType == InitLog

MapBuiltinTypeCall ==
    \E n \in TypeNames, w \in Widths, s \in Signs :
        /\ call.op \in LogOps
        /\ Called([op |-> "map_builtin_type", type_name |-> n, width |-> w, signed |-> s],
                  map_builtin_type(n, w, s, NoneStr, NoneVal, NoneVal))

NextType == PriorError \/ PriorWarning \/ MapBuiltinTypeCall

SpecType == InitType /\ [][NextType]_vars

-----------------------------------------------------------------------------
(* expr_mapper.py: ExprMapper *)

\* zuspec.dataclasses.ir.expr: the IR expression nodes the mapper constructs.
BinOp(name) == [kind |-> "BinOp", name |-> name]
CmpOp(name) == [kind |-> "CmpOp", name |-> name]
UnaryOp(name) == [kind |-> "UnaryOp", name |-> name]
ExprBin(lhs, op, rhs) == [kind |-> "ExprBin", lhs |-> lhs, op |-> op, rhs |-> rhs]
ExprUnary(op, operand) == [kind |-> "ExprUnary", op |-> op, operand |-> operand]
ExprConstant(value) == [kind |-> "ExprConstant", value |-> value]
ExprRefLocal(name) == [kind |-> "ExprRefLocal", name |-> name]
ExprAttribute(value, attr) == [kind |-> "ExprAttribute", value |-> value, attr |-> attr]
ExprSubscript(value, slice) == [kind |-> "ExprSubscript", value |-> value, slice |-> slice]
ExprCall(func, args, keywords) ==
    [kind |-> "ExprCall", func |-> func, args |-> args, keywords |-> keywords]

\* A Python int and a Python str held by an ExprConstant.
IntValue(n) == [int |-> n]
StrValue(s) == [str |-> s]

\* hasattr(obj, name)
hasattr(obj, name) == name \in DOMAIN obj

\* str(e) of the AttributeError raised by reading a missing attribute.
AttributeError(name) == <<"object has no attribute '", name, "'">>


IsDigit(c) == \E d \in 1..Len(Digits) : Digits[d] = c

DigitValue(c) == (CHOOSE d \in 1..Len(Digits) : Digits[d] = c) - 1

RECURSIVE DecimalValue(_)
DecimalValue(ds) ==
    IF ds = <<>> THEN 0
    ELSE 10 * DecimalValue(SubSeq(ds, 1, Len(ds) - 1)) + DigitValue(ds[Len(ds)])

\* int(text): Some(value) for an optionally signed run of decimal digits, NoneVal
\* where int() raises ValueError.  (Blanks around the digits and underscores
\* between them, which int() also accepts, occur in no text given to it here.)
int(text) ==
    LET signed == text # <<>> /\ text[1] \in {"-", "+"}
        ds == IF signed THEN Tail(text) ELSE text
    IN IF ds # <<>> /\ \A i \in 1..Len(ds) : IsDigit(ds[i])
       THEN Some(IF signed /\ text[1] = "-" THEN 0 - DecimalValue(ds) ELSE DecimalValue(ds))
       ELSE NoneVal

FourStateOperators ==
    {"BinaryOperator.CaseEquality", "BinaryOperator.CaseInequality",
     "BinaryOperator.WildcardEquality", "BinaryOperator.WildcardInequality"}

\* op_map of _map_binary_operator.
op_map ==
    [o \in {"BinaryOperator.Add", "BinaryOperator.Subtract", "BinaryOperator.Multiply",
            "BinaryOperator.Divide", "BinaryOperator.Mod", "BinaryOperator.BinaryAnd",
            "BinaryOperator.BinaryOr", "BinaryOperator.BinaryXor",
            "BinaryOperator.LogicalShiftLeft", "BinaryOperator.LogicalShiftRight",
            "BinaryOperator.Equality", "BinaryOperator.Inequality",
            "BinaryOperator.LessThan", "BinaryOperator.LessThanEqual",
            "BinaryOperator.GreaterThan", "BinaryOperator.GreaterThanEqual"} |->
        CASE o = "BinaryOperator.Add" -> BinOp("Add")
          [] o = "BinaryOperator.Subtract" -> BinOp("Sub")
          [] o = "BinaryOperator.Multiply" -> BinOp("Mult")
          [] o = "BinaryOperator.Divide" -> BinOp("Div")
          [] o = "BinaryOperator.Mod" -> BinOp("Mod")
          [] o = "BinaryOperator.BinaryAnd" -> BinOp("BitAnd")
          [] o = "BinaryOperator.BinaryOr" -> BinOp("BitOr")
          [] o = "BinaryOperator.BinaryXor" -> BinOp("BitXor")
          [] o = "BinaryOperator.LogicalShiftLeft" -> BinOp("LShift")
          [] o = "BinaryOperator.LogicalShiftRight" -> BinOp("RShift")
          [] o = "BinaryOperator.Equality" -> CmpOp("Eq")
          [] o = "BinaryOperator.Inequality" -> CmpOp("NotEq")
          [] o = "BinaryOperator.LessThan" -> CmpOp("Lt")
          [] o = "BinaryOperator.LessThanEqual" -> CmpOp("LtE")
          [] o = "BinaryOperator.GreaterThan" -> CmpOp("Gt")
          [] o = "BinaryOperator.GreaterThanEqual" -> CmpOp("GtE")]

_map_binary_operator(op_str) ==
    IF op_str \notin DOMAIN op_map
    THEN [out |-> error_msg(NoReports, Str("Unsupported binary operator: ") \o Str(op_str)),
          ret |-> None]
    ELSE [out |-> NoReports, ret |-> op_map[op_str]]

unary_op_map ==
    [o \in {"UnaryOperator.BitwiseNot", "UnaryOperator.LogicalNot",
            "UnaryOperator.Plus", "UnaryOperator.Minus"} |->
        CASE o = "UnaryOperator.BitwiseNot" -> UnaryOp("Invert")
          [] o = "UnaryOperator.LogicalNot" -> UnaryOp("Not")
          [] o = "UnaryOperator.Plus" -> UnaryOp("UAdd")
          [] o = "UnaryOperator.Minus" -> UnaryOp("USub")]

_map_unary_operator(op_str) ==
    IF op_str \notin DOMAIN unary_op_map
    THEN [out |-> error_msg(NoReports, Str("Unsupported unary operator: ") \o Str(op_str)),
          ret |-> None]
    ELSE [out |-> NoReports, ret |-> unary_op_map[op_str]]

\* Mutant of _map_integer_literal: a text int() rejects is an error.
_map_integer_literal_ReportsUnparsed(sv_expr) ==
    LET value_str == sv_expr.text
        parsed == int(value_str)
    IN IF parsed = NoneVal
       THEN [out |-> error_msg(NoReports, Str("Error mapping integer literal: ") \o value_str),
             ret |-> None]
       ELSE [out |-> NoReports, ret |-> ExprConstant(IntValue(parsed[1]))]

_map_integer_literal(sv_expr) ==
    LET value_str == sv_expr.text
        parsed == int(value_str)
        value == IF parsed # NoneVal THEN parsed[1] ELSE 0
    IN [out |-> NoReports, ret |-> ExprConstant(IntValue(value))]

_map_string_literal(sv_expr) ==
    [out |-> NoReports, ret |-> ExprConstant(StrValue(sv_expr.text))]

_map_named_value(sv_expr) ==
    IF hasattr(sv_expr, "symbol")
    THEN [out |-> NoReports, ret |-> ExprRefLocal(sv_expr.symbol.name)]
    ELSE [out |-> error_msg(NoReports, Str("Named value has no symbol")), ret |-> None]

RECURSIVE map_expression(_)

\* Mutant of RejectsFourState: the rejection is skipped and the operator goes
\* to the table like any other.
RejectsFourState_Never(op_str) == FALSE

\* Mutant of RejectsFourState: the check is made in strict mode only.
RejectsFourState_StrictOnly(op_str) ==
    config.strict_mode /\ op_str \in FourStateOperators

\* _map_binary_op's test `op_str in [CaseEquality, CaseInequality, Wildcard...]`.
RejectsFourState(op_str) == op_str \in FourStateOperators

_map_binary_op(sv_expr) ==
    IF ~hasattr(sv_expr, "op")
    THEN [out |-> error_msg(NoReports, Str("Binary operation missing operator")),
          ret |-> None]
    ELSE
    LET op_str == sv_expr.op IN
    IF RejectsFourState(op_str)
    THEN [out |-> error_sugg(NoReports,
                             Str("4-state operator not supported: ") \o Str(op_str),
                             Str("Use 2-state operators (==, !=)")),
          ret |-> None]
    ELSE
    Bind(_map_binary_operator(op_str), LAMBDA zuspec_op :
    IF zuspec_op.ret = None THEN [out |-> zuspec_op.out, ret |-> None]
    ELSE IF ~hasattr(sv_expr, "left")
    THEN [out |-> error_msg(zuspec_op.out,
                            Str("Error mapping binary op: ") \o AttributeError("left")),
          ret |-> None]
    ELSE
    Bind(map_expression(sv_expr.left), LAMBDA left :
    IF ~hasattr(sv_expr, "right")
    THEN [out |-> error_msg(zuspec_op.out \o left.out,
                            Str("Error mapping binary op: ") \o AttributeError("right")),
          ret |-> None]
    ELSE
    Bind(map_expression(sv_expr.right), LAMBDA right :
    [out |-> zuspec_op.out \o left.out \o right.out,
     ret |-> IF left.ret = None \/ right.ret = None THEN None
             ELSE ExprBin(left.ret, zuspec_op.ret, right.ret)])))

_map_unary_op(sv_expr) ==
    IF ~hasattr(sv_expr, "op")
    THEN [out |-> error_msg(NoReports, Str("Unary operation missing operator")),
          ret |-> None]
    ELSE
    Bind(_map_unary_operator(sv_expr.op), LAMBDA zuspec_op :
    IF zuspec_op.ret = None THEN [out |-> zuspec_op.out, ret |-> None]
    ELSE IF ~hasattr(sv_expr, "operand")
    THEN [out |-> error_msg(zuspec_op.out,
                            Str("Error mapping unary op: ") \o AttributeError("operand")),
          ret |-> None]
    ELSE
    Bind(map_expression(sv_expr.operand), LAMBDA operand :
    [out |-> zuspec_op.out \o operand.out,
     ret |-> IF operand.ret = None THEN None
             ELSE ExprUnary(zuspec_op.ret, operand.ret)]))

_map_member_access(sv_expr) ==
    IF ~hasattr(sv_expr, "value")
    THEN [out |-> error_msg(NoReports,
                            Str("Error mapping member access: ") \o AttributeError("value")),
          ret |-> None]
    ELSE
    Bind(map_expression(sv_expr.value), LAMBDA value :
    IF value.ret = None THEN [out |-> value.out, ret |-> None]
    ELSE IF hasattr(sv_expr, "member")
    THEN [out |-> value.out, ret |-> ExprAttribute(value.ret, sv_expr.member.name)]
    ELSE [out |-> error_msg(value.out, Str("Member access has no member name")),
          ret |-> None])

_map_element_select(sv_expr) ==
    IF ~hasattr(sv_expr, "value")
    THEN [out |-> error_msg(NoReports,
                            Str("Error mapping element select: ") \o AttributeError("value")),
          ret |-> None]
    ELSE
    Bind(map_expression(sv_expr.value), LAMBDA value :
    IF value.ret = None THEN [out |-> value.out, ret |-> None]
    ELSE IF ~hasattr(sv_expr, "selector")
    THEN [out |-> error_msg(value.out,
                            Str("Error mapping element select: ") \o AttributeError("selector")),
          ret |-> None]
    ELSE
    Bind(map_expression(sv_expr.selector), LAMBDA selector :
    [out |-> value.out \o selector.out,
     ret |-> IF selector.ret = None THEN None
             ELSE ExprSubscript(value.ret, selector.ret)]))

\* Mutant of AppendMapped: once an error has been reported the loop lowers
\* nothing more (fail-fast).
AppendMapped_StopsAtError(so_far, mapped) ==
    IF has_errors(so_far.out) THEN so_far
    ELSE [out |-> so_far.out \o mapped.out,
          ret |-> IF mapped.ret # None THEN Append(so_far.ret, mapped.ret) ELSE so_far.ret]

\* One turn of a loop that collects what it maps: `so_far` is [out, ret |-> the
\* list] before the turn, `mapped` what the turn's call returned; the result is
\* appended unless it is None.
AppendMapped(so_far, mapped) ==
    [out |-> so_far.out \o mapped.out,
     ret |-> IF mapped.ret # None THEN Append(so_far.ret, mapped.ret) ELSE so_far.ret]

\* The loop of _map_call over the arguments: [out, ret |-> args] once every
\* argument has been visited.
RECURSIVE _map_call_args(_)
_map_call_args(arguments) ==
    IF arguments = <<>> THEN [out |-> NoReports, ret |-> <<>>]
    ELSE AppendMapped(_map_call_args(SubSeq(arguments, 1, Len(arguments) - 1)),
                      map_expression(arguments[Len(arguments)]))

_map_call(sv_expr) ==
    LET func_name == IF hasattr(sv_expr, "subroutine")
                     THEN sv_expr.subroutine.name
                     ELSE Str("unknown")
        func_ref == ExprRefLocal(func_name)
    IN Bind(IF hasattr(sv_expr, "arguments")
            THEN _map_call_args(sv_expr.arguments)
            ELSE [out |-> NoReports, ret |-> <<>>],
            LAMBDA args : [out |-> args.out, ret |-> ExprCall(func_ref, args.ret, <<>>)])

_map_conversion(sv_expr) ==
    IF ~hasattr(sv_expr, "operand")
    THEN [out |-> error_msg(NoReports,
                            Str("Error mapping conversion: ") \o AttributeError("operand")),
          ret |-> None]
    ELSE map_expression(sv_expr.operand)

map_expression(sv_expr) ==
    IF sv_expr = None THEN [out |-> NoReports, ret |-> None]
    ELSE IF ~hasattr(sv_expr, "kind")
    THEN [out |-> error_msg(NoReports, Str("Unknown expression type: ") \o Str("<class>")),
          ret |-> None]
    ELSE
    LET expr_kind == sv_expr.kind IN
    CASE expr_kind = "ExpressionKind.BinaryOp" -> _map_binary_op(sv_expr)
      [] expr_kind = "ExpressionKind.UnaryOp" -> _map_unary_op(sv_expr)
      [] expr_kind = "ExpressionKind.IntegerLiteral" -> _map_integer_literal(sv_expr)
      [] expr_kind = "ExpressionKind.StringLiteral" -> _map_string_literal(sv_expr)
      [] expr_kind = "ExpressionKind.NamedValue" -> _map_named_value(sv_expr)
      [] expr_kind = "ExpressionKind.MemberAccess" -> _map_member_access(sv_expr)
      [] expr_kind = "ExpressionKind.ElementSelect" -> _map_element_select(sv_expr)
      [] expr_kind = "ExpressionKind.Call" -> _map_call(sv_expr)
      [] expr_kind = "ExpressionKind.Conversion" -> _map_conversion(sv_expr)
      [] OTHER ->
            [out |-> error_msg(NoReports,
                               Str("Unsupported expression kind: ") \o Str(expr_kind)),
             ret |-> None]

-----------------------------------------------------------------------------
(* The expression mapper on its own: map_expression(sv_expr) *)

\* The front end's expression nodes, as the mapper reads them.
IntegerLiteral(text) == [kind |-> "ExpressionKind.IntegerLiteral", text |-> text]
StringLiteral(text) == [kind |-> "ExpressionKind.StringLiteral", text |-> text]
RealLiteral(text) == [kind |-> "ExpressionKind.RealLiteral", text |-> text]
Symbol(name) == [kind |-> "Symbol", name |-> name]
NamedValue(name) == [kind |-> "ExpressionKind.NamedValue", symbol |-> Symbol(name)]
BinaryOp(op, left, right) ==
    [kind |-> "ExpressionKind.BinaryOp", op |-> op, left |-> left, right |-> right]
UnaryOpExpr(op, operand) ==
    [kind |-> "ExpressionKind.UnaryOp", op |-> op, operand |-> operand]
MemberAccess(value, member) ==
    [kind |-> "ExpressionKind.MemberAccess", value |-> value, member |-> Symbol(member)]
ElementSelect(value, selector) ==
    [kind |-> "ExpressionKind.ElementSelect", value |-> value, selector |-> selector]
CallExpr(subroutine, arguments) ==
    [kind |-> "ExpressionKind.Call", subroutine |-> Symbol(subroutine),
     arguments |-> arguments]
Conversion(operand) == [kind |-> "ExpressionKind.Conversion", operand |-> operand]

\* The binary operators of the source language the table does not list.
UnmappedOperators ==
    {"BinaryOperator.BinaryXnor", "BinaryOperator.LogicalAnd", "BinaryOperator.LogicalOr",
     "BinaryOperator.LogicalImplication", "BinaryOperator.LogicalEquivalence",
     "BinaryOperator.ArithmeticShiftLeft", "BinaryOperator.ArithmeticShiftRight",
     "BinaryOperator.Power"}

AllBinaryOperators == DOMAIN op_map \cup FourStateOperators \cup UnmappedOperators

AllUnaryOperators == DOMAIN unary_op_map \cup {"UnaryOperator.Preincrement"}

Var_a == NamedValue(Str("a"))
Var_b == NamedValue(Str("b"))
Lit_42 == IntegerLiteral(<<"4","2">>)
Lit_sized == IntegerLiteral(<<"3","2","'","d","1","0">>)
Lit_real == RealLiteral(<<"1",".","5">>)

ExprLeaves == {Var_a, Lit_42, Lit_real}

ExprNested ==
    {BinaryOp("BinaryOperator.CaseEquality", Var_a, Var_b),
     BinaryOp("BinaryOperator.Add", Var_a, Lit_42),
     UnaryOpExpr("UnaryOperator.Minus", Var_a)}

\* Nodes without an accessor their mapper reads: reading it raises.
RaisingExprs ==
    {[kind |-> "ExpressionKind.BinaryOp", op |-> "BinaryOperator.Add"],
     [kind |-> "ExpressionKind.BinaryOp", op |-> "BinaryOperator.Add", left |-> Var_a],
     [kind |-> "ExpressionKind.UnaryOp", op |-> "UnaryOperator.Minus"],
     [kind |-> "ExpressionKind.MemberAccess"],
     [kind |-> "ExpressionKind.ElementSelect", value |-> Var_a],
     [kind |-> "ExpressionKind.Conversion"]}

\* Nodes of kinds map_expression has no branch for (a real literal is one too).
UnhandledExprs ==
    {[kind |-> "ExpressionKind.Replication", operand |-> Var_a],
     [kind |-> "ExpressionKind.ConditionalOp", left |-> Var_a, right |-> Var_b],
     [kind |-> "ExpressionKind.Assignment", left |-> Var_a, right |-> Lit_42]}

Lit_neg7 == IntegerLiteral(<<"-","7">>)
Lit_007 == IntegerLiteral(<<"0","0","7">>)
Lit_0 == IntegerLiteral(<<"0">>)
Lit_hexFF == IntegerLiteral(<<"8","'","h","F","F">>)
Lit_empty == IntegerLiteral(<<>>)

ExprNodes ==
    ExprLeaves
    \cup {Lit_neg7, Lit_007, Lit_0, Lit_hexFF, Lit_empty}
    \cup RaisingExprs
    \cup UnhandledExprs
    \cup {None, [text |-> Str("?")], Var_b, Lit_sized, StringLiteral(Str("hello"))}
    \cup {BinaryOp(op, l, r) : op \in AllBinaryOperators, l \in ExprLeaves, r \in ExprLeaves}
    \cup {BinaryOp(op, l, r) :
            op \in {"BinaryOperator.Add", "BinaryOperator.Equality",
                    "BinaryOperator.WildcardEquality", "BinaryOperator.Power"},
            l \in ExprNested, r \in ExprNested}
    \cup {[kind |-> "ExpressionKind.BinaryOp", left |-> Var_a, right |-> Var_b],
          [kind |-> "ExpressionKind.BinaryOp", op |-> "BinaryOperator.Add", left |-> Lit_real],
          [kind |-> "ExpressionKind.BinaryOp", op |-> "BinaryOperator.CaseInequality"]}
    \cup {UnaryOpExpr(op, x) : op \in AllUnaryOperators, x \in ExprLeaves \cup ExprNested}
    \cup {MemberAccess(x, Str("f")) : x \in ExprLeaves \cup ExprNested}
    \cup {[kind |-> "ExpressionKind.MemberAccess", value |-> Var_a]}
    \cup {ElementSelect(x, y) : x \in ExprLeaves \cup ExprNested, y \in ExprLeaves \cup ExprNested}
    \cup {CallExpr(Str("f"), args) :
            args \in {<<>>} \cup {<<x>> : x \in ExprLeaves \cup ExprNested}
                     \cup {<<x, y>> : x \in ExprLeaves, y \in ExprNested}}
    \cup {[kind |-> "ExpressionKind.Call"]}
    \cup {Conversion(x) : x \in ExprLeaves \cup ExprNested}

InitExpr == InitLog

MapExpressionCall ==
    \E n \in ExprNodes :
        /\ call.op \in LogOps
        /\ Called([op |-> "map_expression", node |-> n], map_expression(n))

NextExpr == PriorError \/ PriorWarning \/ MapExpressionCall

SpecExpr == InitExpr /\ [][NextExpr]_vars

-----------------------------------------------------------------------------
(* stmt_mapper.py: StmtMapper *)

\* zuspec.dataclasses.ir.stmt: the IR statement nodes the mapper constructs.
StmtAssign(targets, value) == [kind |-> "StmtAssign", targets |-> targets, value |-> value]
StmtIf(test, body, orelse) ==
    [kind |-> "StmtIf", test |-> test, body |-> body, orelse |-> orelse]
StmtFor(target, iter, body, orelse) ==
    [kind |-> "StmtFor", target |-> target, iter |-> iter, body |-> body, orelse |-> orelse]
StmtWhile(test, body, orelse) ==
    [kind |-> "StmtWhile", test |-> test, body |-> body, orelse |-> orelse]
StmtReturn(value) == [kind |-> "StmtReturn", value |-> value]
StmtBreak == [kind |-> "StmtBreak"]
StmtContinue == [kind |-> "StmtContinue"]
StmtExpr(expr) == [kind |-> "StmtExpr", expr |-> expr]

\* A Python list returned where a single object may be returned too.
List(items) == [kind |-> "list", items |-> items]

isinstance_list(x) == x.kind = "list"

\* bool(x) of a returned object: None and the empty list are false.
Truthy(x) == x # None /\ ~(isinstance_list(x) /\ x.items = <<>>)

\* Mutant of Collect: a returned list is appended as one item, not spliced.
Collect_AppendsList(stmts, mapped) ==
    IF ~Truthy(mapped) THEN stmts ELSE Append(stmts, mapped)

\* `stmts.extend(mapped)` for a list, `stmts.append(mapped)` otherwise, when
\* `mapped` is truthy.
Collect(stmts, mapped) ==
    IF ~Truthy(mapped) THEN stmts
    ELSE IF isinstance_list(mapped) THEN stmts \o mapped.items
    ELSE Append(stmts, mapped)

RECURSIVE map_statement(_)
RECURSIVE map_statements(_)

_map_assignment(sv_expr) ==
    IF ~hasattr(sv_expr, "left")
    THEN [out |-> error_msg(NoReports, Str("Assignment missing left side")), ret |-> None]
    ELSE
    Bind(map_expression(sv_expr.left), LAMBDA target_expr :
    IF target_expr.ret = None THEN [out |-> target_expr.out, ret |-> None]
    ELSE IF ~hasattr(sv_expr, "right")
    THEN [out |-> error_msg(target_expr.out, Str("Assignment missing right side")),
          ret |-> None]
    ELSE
    Bind(map_expression(sv_expr.right), LAMBDA value_expr :
    [out |-> target_expr.out \o value_expr.out,
     ret |-> IF value_expr.ret = None THEN None
             ELSE StmtAssign(<<target_expr.ret>>, value_expr.ret)]))

\* Mutant of _map_expression_statement: an assignment is handed to
\* map_expression like any other expression.
_map_expression_statement_NoAssignment(sv_stmt) ==
    IF ~hasattr(sv_stmt, "expr") THEN [out |-> NoReports, ret |-> None]
    ELSE
    Bind(map_expression(sv_stmt.expr), LAMBDA expr :
    [out |-> expr.out, ret |-> IF expr.ret # None THEN StmtExpr(expr.ret) ELSE None])

_map_expression_statement(sv_stmt) ==
    IF ~hasattr(sv_stmt, "expr") THEN [out |-> NoReports, ret |-> None]
    ELSE
    LET sv_expr == sv_stmt.expr IN
    IF hasattr(sv_expr, "kind") /\ sv_expr.kind = "ExpressionKind.Assignment"
    THEN _map_assignment(sv_expr)
    ELSE
    Bind(map_expression(sv_expr), LAMBDA expr :
    [out |-> expr.out, ret |-> IF expr.ret # None THEN StmtExpr(expr.ret) ELSE None])

\* Mutant of _map_return: a return whose value could not be lowered is dropped.
_map_return_DropsFailed(sv_stmt) ==
    IF hasattr(sv_stmt, "expr") /\ sv_stmt.expr # None
    THEN Bind(map_expression(sv_stmt.expr), LAMBDA value_expr :
         [out |-> value_expr.out,
          ret |-> IF value_expr.ret = None THEN None ELSE StmtReturn(value_expr.ret)])
    ELSE [out |-> NoReports, ret |-> StmtReturn(None)]

_map_return(sv_stmt) ==
    IF hasattr(sv_stmt, "expr") /\ sv_stmt.expr # None
    THEN Bind(map_expression(sv_stmt.expr), LAMBDA value_expr :
         [out |-> value_expr.out, ret |-> StmtReturn(value_expr.ret)])
    ELSE [out |-> NoReports, ret |-> StmtReturn(None)]

\* Mutant of _map_conditional: the last condition/body pair is taken.
_map_conditional_LastCondition(sv_stmt) ==
    IF ~hasattr(sv_stmt, "conditions") \/ sv_stmt.conditions = <<>>
    THEN [out |-> error_msg(NoReports, Str("Conditional missing condition")), ret |-> None]
    ELSE
    LET conditions == sv_stmt.conditions
        first_cond == conditions[Len(conditions)]
    IN
    IF ~hasattr(first_cond, "expr")
    THEN [out |-> error_msg(NoReports,
                            Str("Error mapping conditional: ") \o AttributeError("expr")),
          ret |-> None]
    ELSE
    Bind(map_expression(first_cond.expr), LAMBDA test_expr :
    IF test_expr.ret = None THEN [out |-> test_expr.out, ret |-> None]
    ELSE
    Bind(IF hasattr(first_cond, "stmt") /\ first_cond.stmt # None
         THEN map_statements(first_cond.stmt)
         ELSE [out |-> NoReports, ret |-> <<>>], LAMBDA body :
    Bind(IF hasattr(sv_stmt, "elseClause") /\ sv_stmt.elseClause # None
         THEN map_statements(sv_stmt.elseClause)
         ELSE [out |-> NoReports, ret |-> <<>>], LAMBDA orelse :
    [out |-> test_expr.out \o body.out \o orelse.out,
     ret |-> StmtIf(test_expr.ret, body.ret, orelse.ret)])))

_map_conditional(sv_stmt) ==
    IF ~hasattr(sv_stmt, "conditions") \/ sv_stmt.conditions = <<>>
    THEN [out |-> error_msg(NoReports, Str("Conditional missing condition")), ret |-> None]
    ELSE
    LET conditions == sv_stmt.conditions
        first_cond == conditions[1]
    IN
    IF ~hasattr(first_cond, "expr")
    THEN [out |-> error_msg(NoReports,
                            Str("Error mapping conditional: ") \o AttributeError("expr")),
          ret |-> None]
    ELSE
    Bind(map_expression(first_cond.expr), LAMBDA test_expr :
    IF test_expr.ret = None THEN [out |-> test_expr.out, ret |-> None]
    ELSE
    Bind(IF hasattr(first_cond, "stmt") /\ first_cond.stmt # None
         THEN map_statements(first_cond.stmt)
         ELSE [out |-> NoReports, ret |-> <<>>], LAMBDA body :
    Bind(IF hasattr(sv_stmt, "elseClause") /\ sv_stmt.elseClause # None
         THEN map_statements(sv_stmt.elseClause)
         ELSE [out |-> NoReports, ret |-> <<>>], LAMBDA orelse :
    [out |-> test_expr.out \o body.out \o orelse.out,
     ret |-> StmtIf(test_expr.ret, body.ret, orelse.ret)])))

\* Mutant of _map_for_loop: the loop condition of the header is lowered and
\* what it reports is kept.
_map_for_loop_LowersHeader(sv_stmt) ==
    LET target == ExprRefLocal(Str("i"))
        iter_expr == ExprRefLocal(Str("range"))
    IN Bind(IF hasattr(sv_stmt, "stopExpr")
            THEN map_expression(sv_stmt.stopExpr)
            ELSE [out |-> NoReports, ret |-> None], LAMBDA stop :
       Bind(IF hasattr(sv_stmt, "body") /\ sv_stmt.body # None
            THEN map_statements(sv_stmt.body)
            ELSE [out |-> NoReports, ret |-> <<>>], LAMBDA body :
       [out |-> stop.out \o body.out, ret |-> StmtFor(target, iter_expr, body.ret, <<>>)]))

_map_for_loop(sv_stmt) ==
    LET target == ExprRefLocal(Str("i"))
        iter_expr == ExprRefLocal(Str("range"))
    IN Bind(IF hasattr(sv_stmt, "body") /\ sv_stmt.body # None
            THEN map_statements(sv_stmt.body)
            ELSE [out |-> NoReports, ret |-> <<>>], LAMBDA body :
       [out |-> body.out, ret |-> StmtFor(target, iter_expr, body.ret, <<>>)])

\* Mutant of _map_while_loop: the body is lowered whatever became of the test.
_map_while_loop_LowersBodyAnyway(sv_stmt) ==
    IF ~hasattr(sv_stmt, "cond")
    THEN [out |-> error_msg(NoReports, Str("While loop missing condition")), ret |-> None]
    ELSE
    Bind(map_expression(sv_stmt.cond), LAMBDA test_expr :
    Bind(IF hasattr(sv_stmt, "body") /\ sv_stmt.body # None
         THEN map_statements(sv_stmt.body)
         ELSE [out |-> NoReports, ret |-> <<>>], LAMBDA body :
    [out |-> test_expr.out \o body.out,
     ret |-> IF test_expr.ret = None THEN None
             ELSE StmtWhile(test_expr.ret, body.ret, <<>>)]))

_map_while_loop(sv_stmt) ==
    IF ~hasattr(sv_stmt, "cond")
    THEN [out |-> error_msg(NoReports, Str("While loop missing condition")), ret |-> None]
    ELSE
    Bind(map_expression(sv_stmt.cond), LAMBDA test_expr :
    IF test_expr.ret = None THEN [out |-> test_expr.out, ret |-> None]
    ELSE
    Bind(IF hasattr(sv_stmt, "body") /\ sv_stmt.body # None
         THEN map_statements(sv_stmt.body)
         ELSE [out |-> NoReports, ret |-> <<>>], LAMBDA body :
    [out |-> test_expr.out \o body.out, ret |-> StmtWhile(test_expr.ret, body.ret, <<>>)]))

_map_block(sv_stmt) ==
    Bind(IF hasattr(sv_stmt, "body") /\ sv_stmt.body # None
         THEN map_statements(sv_stmt.body)
         ELSE [out |-> NoReports, ret |-> <<>>], LAMBDA body :
    [out |-> body.out, ret |-> List(body.ret)])

\* One turn of the loops of _map_statement_list and map_statements: `so_far` is
\* [out, ret |-> stmts] before the turn, `mapped` what map_statement returned.
CollectMapped(so_far, mapped) ==
    [out |-> so_far.out \o mapped.out, ret |-> Collect(so_far.ret, mapped.ret)]

\* The loop over the statements: [out, ret |-> stmts] once every statement has
\* been visited.
RECURSIVE MapEach(_)
MapEach(sv_stmts) ==
    IF sv_stmts = <<>> THEN [out |-> NoReports, ret |-> <<>>]
    ELSE CollectMapped(MapEach(SubSeq(sv_stmts, 1, Len(sv_stmts) - 1)),
                       map_statement(sv_stmts[Len(sv_stmts)]))

_map_statement_list(sv_stmt) ==
    Bind(IF hasattr(sv_stmt, "list")
         THEN MapEach(sv_stmt.list)
         ELSE [out |-> NoReports, ret |-> <<>>], LAMBDA stmts :
    [out |-> stmts.out, ret |-> List(stmts.ret)])

\* Mutant of map_statement: a statement of a kind without a branch is skipped
\* without a report.
map_statement_SkipsUnknown(sv_stmt) ==
    IF sv_stmt = None THEN [out |-> NoReports, ret |-> None]
    ELSE IF ~hasattr(sv_stmt, "kind")
    THEN [out |-> error_msg(NoReports, Str("Unknown statement type: ") \o Str("<class>")),
          ret |-> None]
    ELSE
    LET stmt_kind == sv_stmt.kind IN
    CASE stmt_kind = "StatementKind.ExpressionStatement" -> _map_expression_statement(sv_stmt)
      [] stmt_kind = "StatementKind.Return" -> _map_return(sv_stmt)
      [] stmt_kind = "StatementKind.Conditional" -> _map_conditional(sv_stmt)
      [] stmt_kind = "StatementKind.ForLoop" -> _map_for_loop(sv_stmt)
      [] stmt_kind \in {"StatementKind.WhileLoop", "StatementKind.DoWhileLoop"} ->
            _map_while_loop(sv_stmt)
      [] stmt_kind = "StatementKind.Break" -> [out |-> NoReports, ret |-> StmtBreak]
      [] stmt_kind = "StatementKind.Continue" -> [out |-> NoReports, ret |-> StmtContinue]
      [] stmt_kind = "StatementKind.Block" -> _map_block(sv_stmt)
      [] stmt_kind = "StatementKind.List" -> _map_statement_list(sv_stmt)
      [] OTHER -> [out |-> NoReports, ret |-> None]

map_statement(sv_stmt) ==
    IF sv_stmt = None THEN [out |-> NoReports, ret |-> None]
    ELSE IF ~hasattr(sv_stmt, "kind")
    THEN [out |-> error_msg(NoReports, Str("Unknown statement type: ") \o Str("<class>")),
          ret |-> None]
    ELSE
    LET stmt_kind == sv_stmt.kind IN
    CASE stmt_kind = "StatementKind.ExpressionStatement" -> _map_expression_statement(sv_stmt)
      [] stmt_kind = "StatementKind.Return" -> _map_return(sv_stmt)
      [] stmt_kind = "StatementKind.Conditional" -> _map_conditional(sv_stmt)
      [] stmt_kind = "StatementKind.ForLoop" -> _map_for_loop(sv_stmt)
      [] stmt_kind \in {"StatementKind.WhileLoop", "StatementKind.DoWhileLoop"} ->
            _map_while_loop(sv_stmt)
      [] stmt_kind = "StatementKind.Break" -> [out |-> NoReports, ret |-> StmtBreak]
      [] stmt_kind = "StatementKind.Continue" -> [out |-> NoReports, ret |-> StmtContinue]
      [] stmt_kind = "StatementKind.Block" -> _map_block(sv_stmt)
      [] stmt_kind = "StatementKind.List" -> _map_statement_list(sv_stmt)
      [] OTHER ->
            [out |-> error_msg(NoReports,
                               Str("Unsupported statement kind: ") \o Str(stmt_kind)),
             ret |-> None]

\* sv_stmts is None, an iterable of statements ([iterable |-> <<...>>], an object
\* with __iter__) or a single statement.
map_statements(sv_stmts) ==
    IF sv_stmts = None THEN [out |-> NoReports, ret |-> <<>>]
    ELSE IF hasattr(sv_stmts, "iterable") THEN MapEach(sv_stmts.iterable)
    ELSE CollectMapped([out |-> NoReports, ret |-> <<>>], map_statement(sv_stmts))

-----------------------------------------------------------------------------
(* function_mapper.py: FunctionMapper *)

\* zuspec.dataclasses.ir: Function, Arguments, Arg.
Arg(arg, annotation) == [kind |-> "Arg", arg |-> arg, annotation |-> annotation]
Arguments(args) ==
    [kind |-> "Arguments", posonlyargs |-> <<>>, args |-> args, vararg |-> None,
     kwonlyargs |-> <<>>, kw_defaults |-> <<>>, kwarg |-> None, defaults |-> <<>>]
Function(name, args, body, returns, is_async, metadata) ==
    [kind |-> "Function", name |-> name, args |-> args, body |-> body,
     returns |-> returns, is_async |-> is_async, metadata |-> metadata,
     is_invariant |-> FALSE, process_kind |-> None, sensitivity_list |-> <<>>]

\* type_str.split('[')[0]: the text before the first '['.
BeforeBracket(type_str) ==
    LET brackets == {i \in 1..Len(type_str) : type_str[i] = "["} IN
    IF brackets = {} THEN type_str
    ELSE SubSeq(type_str, 1, (CHOOSE i \in brackets : \A j \in brackets : i <= j) - 1)

\* str.strip(): leading and trailing blanks removed.
strip(t) ==
    LET inked == {i \in 1..Len(t) : t[i] # " "} IN
    IF inked = {} THEN <<>>
    ELSE SubSeq(t, CHOOSE i \in inked : \A j \in inked : i <= j,
                   CHOOSE i \in inked : \A j \in inked : i >= j)

\* The base type name the class and function mappers extract from str(sv_type).
BaseTypeName(type_str) ==
    IF \E i \in 1..Len(type_str) : type_str[i] = "["
    THEN strip(BeforeBracket(type_str))
    ELSE type_str

\* isinstance(sv_type, pyslang.IntegralType)
isinstance_IntegralType(sv_type) == sv_type.integral

_map_return_type(sv_type) ==
    IF isinstance_IntegralType(sv_type)
    THEN map_builtin_type(BaseTypeName(sv_type.text),
                          IF hasattr(sv_type, "bitWidth") THEN Some(sv_type.bitWidth) ELSE NoneVal,
                          IF hasattr(sv_type, "isSigned") THEN Some(sv_type.isSigned) ELSE NoneVal,
                          NoneStr, NoneVal, NoneVal)
    ELSE [out |-> warning_msg(NoReports, Str("Unsupported return type: ") \o sv_type.text),
          ret |-> None]

_map_arguments(sv_func) ==
    LET arguments == IF hasattr(sv_func, "arguments") THEN sv_func.arguments ELSE <<>>
        args_list == [i \in 1..Len(arguments) |->
                        Arg(IF hasattr(arguments[i], "name")
                            THEN arguments[i].name ELSE Str("unnamed"),
                            None)]
    IN [out |-> NoReports, ret |-> Arguments(args_list)]

\* Mutant of is_async: the kind is searched for "task" in lower case.
is_async_LowerCase(sv_func) ==
    hasattr(sv_func, "subroutineKind") /\ Contains(sv_func.subroutineKind, Str("task"))

\* is_async of map_function: 'Task' in str(sv_func.subroutineKind).
is_async(sv_func) ==
    hasattr(sv_func, "subroutineKind") /\ Contains(sv_func.subroutineKind, Str("Task"))

map_function(sv_func) ==
    LET func_name == IF hasattr(sv_func, "name") THEN sv_func.name ELSE Str("unknown")
        \* the metadata dict, as its set of items
        metadata == IF hasattr(sv_func, "flags") /\ Contains(sv_func.flags, Str("Virtual"))
                    THEN {<<"virtual", TRUE>>}
                    ELSE {}
    IN
    Bind(IF hasattr(sv_func, "returnType") /\ sv_func.returnType # None
         THEN IF hasattr(sv_func.returnType, "isVoid") /\ sv_func.returnType.isVoid
              THEN [out |-> NoReports, ret |-> None]
              ELSE _map_return_type(sv_func.returnType)
         ELSE [out |-> NoReports, ret |-> None], LAMBDA returns :
    Bind(_map_arguments(sv_func), LAMBDA args :
    Bind(IF hasattr(sv_func, "body") /\ sv_func.body # None
         THEN map_statements(sv_func.body)
         ELSE [out |-> NoReports, ret |-> <<>>], LAMBDA body :
    [out |-> returns.out \o args.out \o body.out,
     ret |-> Function(func_name, args.ret, body.ret, returns.ret, is_async(sv_func),
                      metadata)])))

\* symbol.visit(visitor): the symbol, then its members, depth first.
RECURSIVE visit(_)
RECURSIVE visit_all(_)
visit(symbol) ==
    <<symbol>> \o (IF hasattr(symbol, "members") THEN visit_all(symbol.members) ELSE <<>>)
visit_all(symbols) ==
    IF symbols = <<>> THEN <<>> ELSE visit(Head(symbols)) \o visit_all(Tail(symbols))

\* The visitor of map_functions_from_class: [out, ret |-> functions] once the
\* symbols have been visited.
RECURSIVE VisitSubroutines(_)
VisitSubroutines(symbols) ==
    IF symbols = <<>> THEN [out |-> NoReports, ret |-> <<>>]
    ELSE
    LET symbol == symbols[Len(symbols)] IN
    IF hasattr(symbol, "kind") /\ symbol.kind = "SymbolKind.Subroutine"
    THEN AppendMapped(VisitSubroutines(SubSeq(symbols, 1, Len(symbols) - 1)),
                      map_function(symbol))
    ELSE VisitSubroutines(SubSeq(symbols, 1, Len(symbols) - 1))

map_functions_from_class(class_symbol) == VisitSubroutines(visit(class_symbol))

-----------------------------------------------------------------------------
(* class_mapper.py: ClassMapper *)

\* zuspec.dataclasses.ir: DataTypeClass (fields and functions start empty), Field.
DataTypeClass(name, super, fields, functions) ==
    [kind |-> "DataTypeClass", name |-> name, super |-> super, fields |-> fields,
     functions |-> functions]
Field(name, datatype) == [kind |-> "Field", name |-> name, datatype |-> datatype]

\* Mutant of _map_type: the bit width is not handed to the type mapper.
_map_type_NoWidth(sv_type) ==
    IF isinstance_IntegralType(sv_type)
    THEN map_builtin_type(BaseTypeName(sv_type.text), NoneVal,
                          IF hasattr(sv_type, "isSigned") THEN Some(sv_type.isSigned) ELSE NoneVal,
                          NoneStr, NoneVal, NoneVal)
    ELSE [out |-> error_msg(NoReports, Str("Unsupported type: ") \o sv_type.text),
          ret |-> None]

_map_type(sv_type) ==
    IF isinstance_IntegralType(sv_type)
    THEN map_builtin_type(BaseTypeName(sv_type.text),
                          IF hasattr(sv_type, "bitWidth") THEN Some(sv_type.bitWidth) ELSE NoneVal,
                          IF hasattr(sv_type, "isSigned") THEN Some(sv_type.isSigned) ELSE NoneVal,
                          NoneStr, NoneVal, NoneVal)
    ELSE [out |-> error_msg(NoReports, Str("Unsupported type: ") \o sv_type.text),
          ret |-> None]

\* Mutant of _map_property_field: the field is created whatever _map_type
\* returned.
_map_property_field_AdmitsUntyped(property_symbol) ==
    LET field_name == property_symbol.name
        var_type == property_symbol.type
    IN
    IF hasattr(var_type, "isFourState") /\ var_type.isFourState
    THEN [out |-> error_sugg(NoReports,
                             Str("Field '") \o field_name \o Str("' uses 4-state type"),
                             Str("Use 2-state types (bit, int, byte, etc.)")),
          ret |-> None]
    ELSE
    Bind(_map_type(var_type), LAMBDA ir_type :
    [out |-> ir_type.out, ret |-> Field(field_name, ir_type.ret)])

\* Mutant of _map_property_field: a four-state field is reported as a warning.
_map_property_field_WarnsOnly(property_symbol) ==
    LET field_name == property_symbol.name
        var_type == property_symbol.type
    IN
    IF hasattr(var_type, "isFourState") /\ var_type.isFourState
    THEN [out |-> warning_msg(NoReports,
                              Str("Field '") \o field_name \o Str("' uses 4-state type")),
          ret |-> None]
    ELSE
    Bind(_map_type(var_type), LAMBDA ir_type :
    [out |-> ir_type.out,
     ret |-> IF ir_type.ret = None THEN None ELSE Field(field_name, ir_type.ret)])

_map_property_field(property_symbol) ==
    LET field_name == property_symbol.name
        var_type == property_symbol.type
    IN
    IF hasattr(var_type, "isFourState") /\ var_type.isFourState
    THEN [out |-> error_sugg(NoReports,
                             Str("Field '") \o field_name \o Str("' uses 4-state type"),
                             Str("Use 2-state types (bit, int, byte, etc.)")),
          ret |-> None]
    ELSE
    Bind(_map_type(var_type), LAMBDA ir_type :
    [out |-> ir_type.out,
     ret |-> IF ir_type.ret = None THEN None ELSE Field(field_name, ir_type.ret)])

\* The visitor of _map_fields: [out, ret |-> fields] once the symbols have been
\* visited.
RECURSIVE VisitProperties(_)
VisitProperties(symbols) ==
    IF symbols = <<>> THEN [out |-> NoReports, ret |-> <<>>]
    ELSE
    LET symbol == symbols[Len(symbols)] IN
    IF hasattr(symbol, "kind") /\ symbol.kind = "SymbolKind.ClassProperty"
    THEN AppendMapped(VisitProperties(SubSeq(symbols, 1, Len(symbols) - 1)),
                      _map_property_field(symbol))
    ELSE VisitProperties(SubSeq(symbols, 1, Len(symbols) - 1))

_map_fields(class_symbol) == VisitProperties(visit(class_symbol))

\* Mutant of map_class: no class record when a member has reported an error.
map_class_AbsentOnFailure(class_symbol, function_mapper) ==
    Bind(_map_fields(class_symbol), LAMBDA fields :
    Bind(IF function_mapper
         THEN map_functions_from_class(class_symbol)
         ELSE [out |-> NoReports, ret |-> <<>>], LAMBDA functions :
    [out |-> fields.out \o functions.out,
     ret |-> IF has_errors(fields.out \o functions.out)
             THEN None
             ELSE DataTypeClass(class_symbol.name, None, fields.ret, functions.ret)]))

\* function_mapper is FALSE for a ClassMapper built without one.
map_class(class_symbol, function_mapper) ==
    IF ~hasattr(class_symbol, "name")
    THEN [out |-> error_msg(NoReports, Str("Error mapping class: ") \o AttributeError("name")),
          ret |-> None]
    ELSE
    LET class_name == class_symbol.name IN
    Bind(_map_fields(class_symbol), LAMBDA fields :
    Bind(IF function_mapper
         THEN map_functions_from_class(class_symbol)
         ELSE [out |-> NoReports, ret |-> <<>>], LAMBDA functions :
    [out |-> fields.out \o functions.out,
     ret |-> DataTypeClass(class_name, None, fields.ret, functions.ret)]))

-----------------------------------------------------------------------------
(* parser.py: SVParser, and mapper.py: SVMapper *)

\* What the front end makes of a source text or file set: it raises, or it
\* yields diagnostics and a compilation root.
Source(raises, diagnostics, root) ==
    [raises |-> raises, diagnostics |-> diagnostics, root |-> root]

Diagnostic(code, isError, location) ==
    [code |-> code, isError |-> isError, location |-> location]

Root(members) == [kind |-> "SymbolKind.Root", members |-> members]

\* pyslang.Compilation(), and the compilation once the syntax tree is added.
Compilation(root) == [kind |-> "Compilation", root |-> root]

\* The loop of parse_text over the front end's diagnostics: what it has
\* reported once every diagnostic has been visited.
RECURSIVE MergeTextDiagnostics(_, _)
MergeTextDiagnostics(diagnostics, file_name) ==
    IF diagnostics = <<>> THEN NoReports
    ELSE LET diag == diagnostics[Len(diagnostics)]
             message == Str("Diagnostic code: ") \o Str(diag.code)
         IN Bind(MergeTextDiagnostics(SubSeq(diagnostics, 1, Len(diagnostics) - 1),
                                      file_name), LAMBDA so_far :
            IF diag.isError
            THEN error(so_far, message, file_name, NoneVal, NoneVal, NoneStr, NoneStr)
            ELSE warning(so_far, message, file_name, NoneVal, NoneVal, NoneStr, NoneStr))

\* The loop of parse_files over the front end's diagnostics.
RECURSIVE MergeFileDiagnostics(_)
MergeFileDiagnostics(diagnostics) ==
    IF diagnostics = <<>> THEN NoReports
    ELSE LET diag == diagnostics[Len(diagnostics)]
             location == diag.location
             file_path == IF location # None /\ hasattr(location, "buffer")
                               /\ location.buffer # None
                          THEN location.buffer.name
                          ELSE NoneStr
             message == Str("Diagnostic code: ") \o Str(diag.code)
         IN Bind(MergeFileDiagnostics(SubSeq(diagnostics, 1, Len(diagnostics) - 1)),
                 LAMBDA so_far :
            IF diag.isError
            THEN error(so_far, message, file_path, NoneVal, NoneVal, NoneStr, NoneStr)
            ELSE warning(so_far, message, file_path, NoneVal, NoneVal, NoneStr, NoneStr))

\* Mutant of ParseSucceeded: the parse succeeds whatever the log holds.
ParseSucceeded_Always(log) == TRUE

\* The last line of parse_text / parse_files' try block:
\* `return not self.error_reporter.has_errors()`.
ParseSucceeded(log) == ~has_errors(log)

\* [out, ret, compilation]: `log` is the reporter's log at the call, compilation
\* is SVParser.compilation afterwards.
parse_text(log, text, file_name) ==
    IF text.raises
    THEN [out |-> error_msg(NoReports, Str("Parser error: ") \o Str("<exception>")),
          ret |-> FALSE,
          compilation |-> Compilation(Root(<<>>))]
    ELSE Bind(MergeTextDiagnostics(text.diagnostics, file_name), LAMBDA merged :
         [out |-> merged, ret |-> ParseSucceeded(log \o merged),
          compilation |-> Compilation(text.root)])

parse_files(log, file_paths) ==
    IF file_paths.raises
    THEN [out |-> error_msg(NoReports, Str("Parser error: ") \o Str("<exception>")),
          ret |-> FALSE,
          compilation |-> Compilation(Root(<<>>))]
    ELSE Bind(MergeFileDiagnostics(file_paths.diagnostics), LAMBDA merged :
         [out |-> merged, ret |-> ParseSucceeded(log \o merged),
          compilation |-> Compilation(file_paths.root)])

get_root(comp) == IF comp # None THEN comp.root ELSE None

\* The visitor of map_text / map_files: the class definitions, in visiting order.
CollectClasses(root) ==
    SelectSeq(visit(root),
              LAMBDA symbol : hasattr(symbol, "kind") /\ symbol.kind = "SymbolKind.ClassType")

\* The loop of map_text / map_files over the classes: [out, ret |-> classes]
\* once every class has been visited.
RECURSIVE MapClasses(_)
MapClasses(sv_classes) ==
    IF sv_classes = <<>> THEN [out |-> NoReports, ret |-> <<>>]
    ELSE AppendMapped(MapClasses(SubSeq(sv_classes, 1, Len(sv_classes) - 1)),
                      map_class(sv_classes[Len(sv_classes)], TRUE))

\* Mutant of PassSucceeded: the pass succeeds when every class came through.
PassSucceeded_ByResult(log, sv_classes, mapped) == Len(mapped) = Len(sv_classes)

\* The last line of map_text / map_files: `return not self.error_reporter.has_errors()`.
PassSucceeded(log, sv_classes, mapped) == ~has_errors(log)

\* map_text / map_files after the parse `parsed`: [out, ret, classes, compilation],
\* and `lowered`, the class definitions handed to map_class.
MapParsed(log, parsed, result_list) ==
    IF ~parsed.ret
    THEN [out |-> parsed.out, ret |-> FALSE, classes |-> result_list,
          compilation |-> parsed.compilation, lowered |-> <<>>]
    ELSE
    LET root == get_root(parsed.compilation) IN
    IF root = None
    THEN [out |-> error_msg(parsed.out, Str("Failed to get compilation root")),
          ret |-> FALSE, classes |-> result_list, compilation |-> parsed.compilation,
          lowered |-> <<>>]
    ELSE
    LET sv_classes == CollectClasses(root) IN
    Bind(MapClasses(sv_classes), LAMBDA mapped :
    [out |-> parsed.out \o mapped.out,
     ret |-> PassSucceeded(log \o parsed.out \o mapped.out, sv_classes, mapped.ret),
     classes |-> result_list \o mapped.ret,
     compilation |-> parsed.compilation,
     lowered |-> sv_classes])

\* Mutant of map_text: each call judges success on its own reports, as if the
\* log had been cleared first.
map_text_FreshLog(log, result_list, text, file_name) ==
    MapParsed(<<>>, parse_text(<<>>, text, file_name), result_list)

map_text(log, result_list, text, file_name) ==
    MapParsed(log, parse_text(log, text, file_name), result_list)

map_files(log, result_list, file_paths) ==
    MapParsed(log, parse_files(log, file_paths), result_list)

-----------------------------------------------------------------------------
(* The front end's symbols and statements, as the mappers read them *)

\* A type: str(sv_type) is `text`, `integral` is isinstance(.., IntegralType).
Type(text, integral, bitWidth, isSigned, isFourState) ==
    [kind |-> "Type", text |-> text, integral |-> integral, bitWidth |-> bitWidth,
     isSigned |-> isSigned, isFourState |-> isFourState, isVoid |-> FALSE]

Dim_7_0 == <<"[","7",":","0","]">>
Dim_31_0 == <<"[","3","1",":","0","]">>

T_bit == Type(W_bit, TRUE, 1, FALSE, FALSE)
T_bit8 == Type(W_bit \o Dim_7_0, TRUE, 8, FALSE, FALSE)
T_bit32 == Type(W_bit \o <<" ">> \o Dim_31_0, TRUE, 32, FALSE, FALSE)
T_byte == Type(W_byte, TRUE, 8, TRUE, FALSE)
T_shortint == Type(W_shortint, TRUE, 16, TRUE, FALSE)
T_int == Type(W_int, TRUE, 32, TRUE, FALSE)
T_longint == Type(W_longint, TRUE, 64, TRUE, FALSE)
T_logic == Type(W_logic, TRUE, 1, FALSE, TRUE)
T_logic32 == Type(W_logic \o Dim_31_0, TRUE, 32, FALSE, TRUE)
T_integer == Type(W_integer, TRUE, 32, TRUE, TRUE)
T_string == Type(W_string, FALSE, 0, FALSE, FALSE)
T_void == [kind |-> "Type", text |-> Str("void"), integral |-> FALSE, isVoid |-> TRUE]

TwoStateTypes == {T_bit, T_bit8, T_bit32, T_byte, T_shortint, T_int, T_longint}
FourStateTypes == {T_logic, T_logic32, T_integer}

ClassProperty(name, type) ==
    [kind |-> "SymbolKind.ClassProperty", name |-> name, type |-> type]

FormalArgument(name) == [kind |-> "SymbolKind.FormalArgument", name |-> name]

Subroutine(name, subroutineKind, returnType, arguments, body, flags) ==
    [kind |-> "SymbolKind.Subroutine", name |-> name, subroutineKind |-> subroutineKind,
     returnType |-> returnType, arguments |-> arguments, body |-> body, flags |-> flags]

ClassType(name, members) ==
    [kind |-> "SymbolKind.ClassType", name |-> name, members |-> members]

K_Function == <<"SubroutineKind.", "Function">>
K_Task == <<"SubroutineKind.", "Task">>
F_None == <<"MethodFlags.", "None">>
F_Virtual == <<"MethodFlags.", "Virtual">>

Assignment(left, right) ==
    [kind |-> "ExpressionKind.Assignment", left |-> left, right |-> right]
ExpressionStatement(expr) == [kind |-> "StatementKind.ExpressionStatement", expr |-> expr]
Return(expr) == [kind |-> "StatementKind.Return", expr |-> expr]
ConditionalStatement(conditions, elseClause) ==
    [kind |-> "StatementKind.Conditional", conditions |-> conditions,
     elseClause |-> elseClause]
Condition(expr, stmt) == [kind |-> "Condition", expr |-> expr, stmt |-> stmt]
ForLoop(body) == [kind |-> "StatementKind.ForLoop", body |-> body]
WhileLoop(cond, body) == [kind |-> "StatementKind.WhileLoop", cond |-> cond, body |-> body]
DoWhileLoop(cond, body) == [kind |-> "StatementKind.DoWhileLoop", cond |-> cond, body |-> body]
Break == [kind |-> "StatementKind.Break"]
Continue == [kind |-> "StatementKind.Continue"]
Block(body) == [kind |-> "StatementKind.Block", body |-> body]
StatementList(list) == [kind |-> "StatementKind.List", list |-> list]
WaitStatement == [kind |-> "StatementKind.Wait"]

CaseEq_a_b == BinaryOp("BinaryOperator.CaseEquality", Var_a, Var_b)
Add_a_42 == BinaryOp("BinaryOperator.Add", Var_a, Lit_42)
Lt_a_b == BinaryOp("BinaryOperator.LessThan", Var_a, Var_b)

\* function int get(int a, int b); return a + 42; endfunction
Fn_get ==
    Subroutine(Str("get"), K_Function, T_int,
               <<FormalArgument(Str("a")), FormalArgument(Str("b"))>>,
               Return(Add_a_42), F_None)

\* function bit check(int a, int b); return a === b; endfunction
Fn_check ==
    Subroutine(Str("check"), K_Function, T_bit,
               <<FormalArgument(Str("a")), FormalArgument(Str("b"))>>,
               Return(CaseEq_a_b), F_None)

\* virtual task run(); a = a + 42; wait (a); endtask
Task_run ==
    Subroutine(Str("run"), K_Task, T_void, <<>>,
               StatementList(<<ExpressionStatement(Assignment(Var_a, Add_a_42)),
                               WaitStatement>>),
               F_Virtual)

\* function string name(); endfunction
Fn_name == Subroutine(Str("name"), K_Function, T_string, <<>>, None, F_None)

Subroutines == {Fn_get, Fn_check, Task_run, Fn_name}

Name_f(i) == <<"f", Digits[i + 1]>>

\* A class whose fields have the types `types`, in this order, named f1, f2, ...,
\* followed by the callables `subroutines`.
ClassOf(name, types, subroutines) ==
    ClassType(name,
              [i \in 1..Len(types) |-> ClassProperty(Name_f(i), types[i])] \o subroutines)

-----------------------------------------------------------------------------
(* The class mapper on its own: map_class(class_symbol) *)

\* The sequences over S of length at most n.
RECURSIVE SeqsUpTo(_, _)
SeqsUpTo(S, n) ==
    IF n = 0 THEN {<<>>}
    ELSE LET shorter == SeqsUpTo(S, n - 1) IN
         shorter \cup {Append(q, x) : q \in {r \in shorter : Len(r) = n - 1}, x \in S}

\* Field declarations per class.
MaxFields == 2

ClassNodes ==
    {ClassOf(Str("c"), types, <<>>) :
        types \in SeqsUpTo(TwoStateTypes \cup {T_logic32, T_string}, MaxFields)}
    \cup {ClassOf(Str("c"), types, subs) :
            types \in {<<>>, <<T_int>>, <<T_logic>>, <<T_integer, T_string>>},
            subs \in {<<f>> : f \in Subroutines}
                       \cup {<<Fn_check, Fn_get>>, <<Fn_check, Fn_name>>}}

InitClass == InitLog

MapClassCall ==
    \E n \in ClassNodes, function_mapper \in BOOLEAN :
        /\ call.op \in LogOps
        /\ Called([op |-> "map_class", node |-> n, function_mapper |-> function_mapper],
                  map_class(n, function_mapper))

NextClass == PriorError \/ PriorWarning \/ MapClassCall

SpecClass == InitClass /\ [][NextClass]_vars

-----------------------------------------------------------------------------
(* The function mapper on its own: map_function(sv_func) *)

\* time: an integral type whose name the type mapper's table does not list.
T_time == Type(<<"t","i","m","e">>, TRUE, 64, FALSE, TRUE)

FuncNodes ==
    {Subroutine(Str("f"), k, rt, args, body, flags) :
        k \in {K_Function, K_Task},
        rt \in {T_int, T_bit8, T_void, T_string, T_logic, T_time},
        args \in {<<>>, <<FormalArgument(Str("a")), FormalArgument(Str("b"))>>},
        body \in {None, Return(Add_a_42), Return(CaseEq_a_b), Return(None), Return(Lit_real)},
        flags \in {F_None, F_Virtual}}
    \cup Subroutines

InitFunc == InitLog

MapFunctionCall ==
    \E n \in FuncNodes :
        /\ call.op \in LogOps
        /\ Called([op |-> "map_function", node |-> n], map_function(n))

NextFunc == PriorError \/ PriorWarning \/ MapFunctionCall

SpecFunc == InitFunc /\ [][NextFunc]_vars

-----------------------------------------------------------------------------
(* The statement mapper on its own: map_statements(sv_stmts) *)

\* Statements per sequence.
MaxStmts == 3

\* begin break; wait(...); continue; end
Block_mixed == Block(StatementList(<<Break, WaitStatement, Continue>>))
\* begin end
Block_empty == Block(None)
\* a === b;
Stmt_caseeq == ExpressionStatement(CaseEq_a_b)
\* a = 42;
Stmt_assign == ExpressionStatement(Assignment(Var_a, Lit_42))

StmtNodes ==
    {Break, Continue, Return(None), WaitStatement, Stmt_caseeq, Stmt_assign,
     Block_mixed, Block_empty}

\* An iterable of statements, or one statement handed over on its own.
StmtInputs ==
    {[iterable |-> q] : q \in SeqsUpTo(StmtNodes, MaxStmts)} \cup StmtNodes \cup {None}

InitStmt == InitLog

MapStatementsCall ==
    \E n \in StmtInputs :
        /\ call.op \in LogOps
        /\ Called([op |-> "map_statements", node |-> n], map_statements(n))

NextStmt == PriorError \/ PriorWarning \/ MapStatementsCall

SpecStmt == InitStmt /\ [][NextStmt]_vars

-----------------------------------------------------------------------------
(* The public operations of the mappers, side by side *)

\* if (<no expression>) ...: reading the condition's expression raises.
RaisingStmts ==
    {[kind |-> "StatementKind.Conditional", conditions |-> <<[kind |-> "Condition"]>>],
     [kind |-> "StatementKind.Conditional",
      conditions |-> <<[kind |-> "Condition", stmt |-> Break]>>, elseClause |-> Continue]}

\* Statements of kinds map_statement has no branch for (wait is one too).
UnhandledStmts ==
    {[kind |-> "StatementKind.Case", expr |-> Var_a],
     [kind |-> "StatementKind.Timed", stmt |-> Break],
     [kind |-> "StatementKind.VariableDeclaration"]}

\* Expression statements that show no expression: one without the accessor,
\* one whose accessor yields None.
BareExprStmts ==
    {[kind |-> "StatementKind.ExpressionStatement"], ExpressionStatement(None)}

\* f(a)
Call_f_a == CallExpr(Str("f"), <<Var_a>>)

\* Expressions every part of which can be lowered.
PlainExprs == {Var_a, Var_b, Lit_42, Add_a_42, Call_f_a}

\* Expression statements: assignments and bare expressions, over plain
\* expressions and over ones that cannot be lowered.
ExprStmts ==
    {ExpressionStatement(Assignment(l, r)) :
        l \in {Var_a, Var_b, Lit_real}, r \in PlainExprs \cup {CaseEq_a_b}}
    \cup {ExpressionStatement(e) : e \in PlainExprs \cup {Lit_real}}

\* if (...) ... [else if (...) ...] [else ...]
CondStmts ==
    {ConditionalStatement(conds, else_clause) :
        conds \in {<<Condition(Lt_a_b, Break)>>,
                   <<Condition(Var_a, Block_mixed)>>,
                   <<Condition(Lt_a_b, Stmt_assign), Condition(CaseEq_a_b, WaitStatement)>>,
                   <<Condition(CaseEq_a_b, WaitStatement), Condition(Lt_a_b, Break)>>},
        else_clause \in {None, Continue, Block_mixed}}

\* for (<initializers>; <stopExpr>; <steps>) <body>, and a loop node that shows
\* no header at all.
ForStmts ==
    {[kind |-> "StatementKind.ForLoop", initializers |-> <<init>>, stopExpr |-> stop,
      steps |-> <<step>>, body |-> body] :
        init \in {Lit_42, Lit_real}, stop \in {Lt_a_b, CaseEq_a_b},
        step \in {Add_a_42, Lit_real}, body \in {None, Break, WaitStatement, Block_mixed}}
    \cup {ForLoop(Break), ForLoop(Block_mixed)}

\* while (...) ... and do ... while (...), over tests that lower and tests
\* that do not.
LoopStmts ==
    {WhileLoop(cond, body) : cond \in {Lt_a_b, CaseEq_a_b, Lit_real},
                             body \in {Break, WaitStatement, Block_mixed}}
    \cup {DoWhileLoop(cond, body) : cond \in {Var_a, CaseEq_a_b},
                                    body \in {Continue, WaitStatement, Block_mixed}}

MapStatementCall ==
    \E n \in StmtNodes \cup ExprStmts \cup CondStmts \cup ForStmts \cup RaisingStmts
                \cup UnhandledStmts \cup BareExprStmts \cup LoopStmts \cup {None} :
        /\ call.op \in LogOps
        /\ Called([op |-> "map_statement", node |-> n], map_statement(n))

InitPublic == InitLog

NextPublic ==
    \/ PriorError
    \/ PriorWarning
    \/ MapBuiltinTypeCall
    \/ MapExpressionCall
    \/ MapStatementCall
    \/ MapStatementsCall
    \/ MapFunctionCall
    \/ MapClassCall

SpecPublic == InitPublic /\ [][NextPublic]_vars

-----------------------------------------------------------------------------
(* The orchestrator: SVMapper.map_text and SVMapper.map_files *)

\* Calls of map_text / map_files on one SVMapper.
MaxCalls == 2

C_packet == ClassOf(Str("my_packet"), <<T_int, T_bit8>>, <<Fn_get>>)
C_seq == ClassOf(Str("my_seq"), <<T_bit32>>, <<Task_run>>)
C_bad == ClassOf(Str("bad_class"), <<T_logic32, T_int>>, <<>>)
C_check == ClassOf(Str("checker"), <<>>, <<Fn_check, Fn_get>>)
C_empty == ClassOf(Str("empty_class"), <<>>, <<>>)

Package(members) == [kind |-> "SymbolKind.Package", members |-> members]

Roots ==
    {Root(<<>>), Root(<<C_packet>>), Root(<<C_bad>>), Root(<<C_check>>), Root(<<C_empty>>),
     Root(<<C_packet, C_seq>>), Root(<<C_bad, C_packet>>), Root(<<C_check, C_seq>>),
     Root(<<Package(<<C_seq>>), C_bad>>)}

Buffer(name) == [kind |-> "SourceLocation", buffer |-> [kind |-> "Buffer", name |-> name]]

D_Warning == Diagnostic("UnusedVariable", FALSE, Buffer(Str("a.sv")))
D_Error == Diagnostic("ExpectedToken", TRUE, None)

Sources ==
    {Source(FALSE, d, r) : d \in {<<>>, <<D_Warning>>}, r \in Roots}
    \cup {Source(FALSE, <<D_Warning, D_Error>>, Root(<<C_packet>>)),
          Source(FALSE, <<D_Error>>, Root(<<>>)),
          Source(TRUE, <<>>, Root(<<>>))}

FileSets ==
    {Source(FALSE, <<>>, Root(<<C_packet>>)), Source(FALSE, <<>>, Root(<<C_bad, C_packet>>)),
     Source(FALSE, <<D_Warning>>, Root(<<C_check, C_seq>>)),
     Source(FALSE, <<D_Error, D_Warning>>, Root(<<C_seq>>)),
     Source(TRUE, <<>>, Root(<<>>))}

Init ==
    /\ config = DefaultConfig
    /\ errors = <<>>
    /\ classes = <<>>
    /\ compilation = None
    /\ call = [op |-> "none", pre |-> <<>>, ret |-> None, n |-> 0]
    /\ reported = 0

\* The state after a map_text / map_files call that returned `r` on `source`.
Mapped(op, source, r) ==
    /\ errors' = errors \o r.out
    /\ classes' = r.classes
    /\ compilation' = r.compilation
    /\ reported' = reported + NumErrors(r.out)
    /\ call' = [op |-> op, pre |-> errors, ret |-> r.ret, n |-> call.n + 1,
                source |-> source, classes_before |-> classes, lowered |-> r.lowered]
    /\ UNCHANGED config

MapText ==
    \E text \in Sources :
        /\ call.n < MaxCalls
        /\ Mapped("map_text", text, map_text(errors, classes, text, Str("<string>")))

MapFiles ==
    \E file_paths \in FileSets :
        /\ call.n < MaxCalls
        /\ Mapped("map_files", file_paths, map_files(errors, classes, file_paths))

Next == MapText \/ MapFiles

Spec == Init /\ [][Next]_vars

-----------------------------------------------------------------------------
(* The hard rejections under every configuration *)

InitHard ==
    /\ config \in Configs
    /\ errors = <<>>
    /\ classes = <<>>
    /\ compilation = None
    /\ call = NoCall
    /\ reported = 0

NextHard == MapBuiltinTypeCall \/ MapExpressionCall

SpecHard == InitHard /\ [][NextHard]_vars

-----------------------------------------------------------------------------
(* Claims *)

\* C2: in every reachable state of the diagnostic log, has_errors() is true if
\* and only if at least one error-severity diagnostic has been appended since
\* creation or the last clear(); warnings alone leave it false.
C2_HasErrorsIffErrorReported == has_errors(errors) <=> reported > 0

\* Two warnings and no error: has_errors() is false.
C2_Witness ==
    /\ call.op = "warning"
    /\ Len(errors) >= 2
    /\ reported = 0
    /\ ~has_errors(errors)

FourStateNames == UNION { Casings(w) : w \in FourStateWords }

\* C3: for every four-state name, in any letter-casing and with any width/signed
\* arguments, map_builtin_type returns None and appends exactly one error-severity
\* diagnostic whose message names the type as written and whose suggestion names
\* the two-state alternative (bit for logic/reg, int for integer).
C3_FourStateRejected ==
    (call.op = "map_builtin_type" /\ call.type_name \in FourStateNames) =>
        /\ call.ret = None
        /\ Len(errors) = Len(call.pre) + 1
        /\ KeptLog
        /\ LET e == errors[Len(errors)] IN
            /\ e.severity = "ERROR"
            /\ Contains(e.message, call.type_name)
            /\ Contains(e.suggestion,
                        IF call.type_name \in Casings(W_integer) THEN W_int ELSE W_bit)

\* INTEGER with a width and a signedness, on a log that already holds a report.
C3_Witness ==
    /\ call.op = "map_builtin_type"
    /\ call.type_name = <<"I","N","T","E","G","E","R">>
    /\ call.width = Some(8)
    /\ call.signed = Some(TRUE)
    /\ Len(call.pre) >= 1
    /\ call.ret = None
    /\ errors[Len(errors)].suggestion = Str("Use 2-state type: ") \o W_int

\* C4: for every two-state scalar name, case-insensitively, map_builtin_type
\* returns the integer type of the fixed table and appends nothing: bit -> the
\* given width (1 when none) and the given signedness (unsigned when none),
\* byte -> 8 signed, shortint -> 16 signed, int -> 32 signed, longint -> 64 signed.
C4_TwoStateTable ==
    \A w \in TwoStateWords :
        (call.op = "map_builtin_type" /\ call.type_name \in Casings(w)) =>
            /\ errors = call.pre
            /\ call.ret.kind = "DataTypeInt"
            /\ call.ret.bits =
                 (CASE w = W_bit -> (IF call.width = NoneVal THEN 1 ELSE call.width[1])
                    [] w = W_byte -> 8
                    [] w = W_shortint -> 16
                    [] w = W_int -> 32
                    [] w = W_longint -> 64)
            /\ call.ret.signed =
                 (IF w = W_bit
                  THEN (IF call.signed = NoneVal THEN FALSE ELSE call.signed[1])
                  ELSE TRUE)

\* Bit with width 8 and signed: an 8-bit signed type, nothing logged.
C4_Witness ==
    /\ call.op = "map_builtin_type"
    /\ call.type_name = <<"B","i","t">>
    /\ call.width = Some(8)
    /\ call.signed = Some(TRUE)
    /\ call.ret = DataTypeInt(8, TRUE)
    /\ errors = call.pre

ArithmeticOperators ==
    {"BinaryOperator.Add", "BinaryOperator.Subtract", "BinaryOperator.Multiply",
     "BinaryOperator.Divide", "BinaryOperator.Mod", "BinaryOperator.Power"}
BitwiseOperators ==
    {"BinaryOperator.BinaryAnd", "BinaryOperator.BinaryOr", "BinaryOperator.BinaryXor",
     "BinaryOperator.BinaryXnor"}
ShiftOperators ==
    {"BinaryOperator.LogicalShiftLeft", "BinaryOperator.LogicalShiftRight",
     "BinaryOperator.ArithmeticShiftLeft", "BinaryOperator.ArithmeticShiftRight"}
RelationalOperators ==
    {"BinaryOperator.Equality", "BinaryOperator.Inequality", "BinaryOperator.LessThan",
     "BinaryOperator.LessThanEqual", "BinaryOperator.GreaterThan",
     "BinaryOperator.GreaterThanEqual"}

\* The last call lowered a binary operation that carries an operator.
BinaryOpCall ==
    /\ call.op = "map_expression"
    /\ call.node # None
    /\ hasattr(call.node, "kind")
    /\ call.node.kind = "ExpressionKind.BinaryOp"
    /\ hasattr(call.node, "op")

\* Both operands of the last call's node lower without a diagnostic.
PlainOperands ==
    /\ hasattr(call.node, "left") /\ call.node.left \in {Var_a, Var_b, Lit_42}
    /\ hasattr(call.node, "right") /\ call.node.right \in {Var_a, Var_b, Lit_42}

\* The four-state half of C6: absent, and one error naming the operator with the
\* suggestion to use == and !=.
FourStateOperatorRejected ==
    (BinaryOpCall /\ call.node.op \in FourStateOperators) =>
        /\ call.ret = None
        /\ KeptLog
        /\ Appended = <<TranslationError("ERROR",
                          Str("4-state operator not supported: ") \o Str(call.node.op),
                          NoneStr, NoneVal, NoneVal, NoneStr,
                          Str("Use 2-state operators (==, !=)"))>>

\* C6 as stated: case/wildcard (in)equality is rejected with the two-state
\* suggestion, and every other arithmetic, bitwise, shift and relational
\* operator is mapped through the table to an IR operator.
C6_Original ==
    /\ FourStateOperatorRejected
    /\ (BinaryOpCall /\ PlainOperands
          /\ call.node.op \in (ArithmeticOperators \cup BitwiseOperators
                                 \cup ShiftOperators \cup RelationalOperators)) =>
            (call.ret # None /\ call.ret.kind = "ExprBin")

\* C6 amended: case/wildcard (in)equality is rejected with the two-state
\* suggestion; the sixteen operators the table lists map to its IR operator; any
\* other operator (power, xnor, arithmetic shifts, logical and/or/implication/
\* equivalence) is absent with one "Unsupported binary operator" error naming it.
C6_TableOrUnsupported ==
    /\ FourStateOperatorRejected
    /\ (BinaryOpCall /\ PlainOperands /\ call.node.op \in DOMAIN op_map) =>
            /\ call.ret # None
            /\ call.ret.kind = "ExprBin"
            /\ call.ret.op = op_map[call.node.op]
            /\ errors = call.pre
    /\ (BinaryOpCall /\ call.node.op \notin (DOMAIN op_map \cup FourStateOperators)) =>
            /\ call.ret = None
            /\ KeptLog
            /\ Appended = <<TranslationError("ERROR",
                              Str("Unsupported binary operator: ") \o Str(call.node.op),
                              NoneStr, NoneVal, NoneVal, NoneStr, NoneStr)>>

\* a ==? b over operands that themselves hold a === : one error, for the outer
\* operator, on a log that already holds a report.
C6_Witness ==
    /\ BinaryOpCall
    /\ call.node.op = "BinaryOperator.WildcardEquality"
    /\ call.node.left = BinaryOp("BinaryOperator.CaseEquality", Var_a, Var_b)
    /\ Len(call.pre) >= 1
    /\ call.ret = None
    /\ Len(errors) = Len(call.pre) + 1

\* C7: whatever the configuration (strict_mode, warn_only, ignore_covergroups,
\* ignore_assertions, ignore_list), a four-state type and a four-state operator
\* are rejected the same way: the result is None and the one diagnostic appended
\* is the same error-severity entry, fixed by the input alone.
C7_HardRejectionUnderEveryConfig ==
    /\ (call.op = "map_builtin_type" /\ call.type_name \in FourStateNames) =>
        /\ call.ret = None
        /\ KeptLog
        /\ Appended = <<TranslationError("ERROR",
                          Str("4-state type '") \o call.type_name \o Str("' not supported"),
                          NoneStr, NoneVal, NoneVal, call.type_name,
                          Str("Use 2-state type: ") \o
                            (IF call.type_name \in Casings(W_integer) THEN W_int ELSE W_bit))>>
    /\ (BinaryOpCall /\ call.node.op \in FourStateOperators) =>
        /\ call.ret = None
        /\ KeptLog
        /\ Len(Appended) = 1
        /\ Appended[1].severity = "ERROR"
        /\ Appended[1].message = Str("4-state operator not supported: ") \o Str(call.node.op)
        /\ Appended[1].suggestion = Str("Use 2-state operators (==, !=)")

\* A === under a configuration with strict_mode off, warn_only on and a
\* non-empty ignore_list.
C7_Witness ==
    /\ ~config.strict_mode
    /\ config.warn_only
    /\ config.ignore_assertions
    /\ ~config.ignore_covergroups
    /\ config.ignore_list # <<>>
    /\ BinaryOpCall
    /\ call.node.op = "BinaryOperator.CaseEquality"
    /\ call.ret = None
    /\ has_errors(errors)

\* The last operation is a call of map_text or map_files.
OrchestratorCall == call.op \in {"map_text", "map_files"}

\* C1: after any map_text or map_files call, the returned flag is true if and
\* only if the diagnostic log holds no error-severity entry at the end of the
\* call, whether the class result list is empty, partial or complete.
C1_FlagIffNoErrorsInLog ==
    OrchestratorCall => (call.ret <=> ~has_errors(errors))

\* A call that lowered every class of its source and appended each to the
\* result list, and still returned false: one field was four-state.
C1_Witness ==
    /\ OrchestratorCall
    /\ call.source.root = Root(<<C_bad, C_packet>>)
    /\ Len(call.lowered) = 2
    /\ Len(classes) = Len(call.classes_before) + 2
    /\ has_errors(errors)
    /\ call.ret = FALSE

\* The positions of the four-state field declarations among the members of a class.
FourStateProperties(c) ==
    {i \in DOMAIN c.members :
        /\ c.members[i].kind = "SymbolKind.ClassProperty"
        /\ c.members[i].type.isFourState}

\* C5: when a class with a four-state field is lowered, its class record is
\* appended to the result list, no field of the record carries the four-state
\* field's name, an error-severity diagnostic is appended, and the call
\* returns false.
C5_FourStateFieldDropped ==
    OrchestratorCall =>
        \A k \in DOMAIN call.lowered :
            FourStateProperties(call.lowered[k]) # {} =>
                /\ Len(classes) = Len(call.classes_before) + Len(call.lowered)
                /\ LET c == call.lowered[k]
                       ir_class == classes[Len(call.classes_before) + k]
                   IN /\ ir_class # None
                      /\ ir_class.kind = "DataTypeClass"
                      /\ ir_class.name = c.name
                      /\ \A i \in FourStateProperties(c) :
                            \A j \in DOMAIN ir_class.fields :
                                ir_class.fields[j].name # c.members[i].name
                /\ \E e \in DOMAIN Appended : Appended[e].severity = "ERROR"
                /\ call.ret = FALSE

\* bad_class (logic [31:0] f1; int f2) lowered behind a package: its record is
\* the last of the result list and holds f2 alone.
C5_Witness ==
    /\ OrchestratorCall
    /\ call.lowered = <<C_seq, C_bad>>
    /\ Len(classes) >= 2
    /\ classes[Len(classes)].name = Str("bad_class")
    /\ Len(classes[Len(classes)].fields) = 1
    /\ classes[Len(classes)].fields[1].name = Name_f(2)
    /\ call.ret = FALSE

\* The front end reported at least one error-severity diagnostic for the source.
FrontEndErrors(source) ==
    \E i \in DOMAIN source.diagnostics : source.diagnostics[i].isError

\* C8: when the front end reports at least one error for the input, the call
\* appends the front end's diagnostics, one entry each and in their order, to
\* the diagnostic log, returns false, hands no class to map_class and leaves
\* the class result list as it was.
C8_FrontEndErrorsStopThePass ==
    (OrchestratorCall /\ ~call.source.raises /\ FrontEndErrors(call.source)) =>
        /\ KeptLog
        /\ Len(Appended) = Len(call.source.diagnostics)
        /\ \A i \in DOMAIN Appended :
            /\ Appended[i].severity =
                 (IF call.source.diagnostics[i].isError THEN "ERROR" ELSE "WARNING")
            /\ Appended[i].message =
                 Str("Diagnostic code: ") \o Str(call.source.diagnostics[i].code)
        /\ call.ret = FALSE
        /\ call.lowered = <<>>
        /\ classes = call.classes_before

\* A second call, on a source with a warning, an error and a class, after a
\* first call that filled the result list.
C8_Witness ==
    /\ OrchestratorCall
    /\ call.n = 2
    /\ call.source = Source(FALSE, <<D_Warning, D_Error>>, Root(<<C_packet>>))
    /\ call.pre = <<>>
    /\ Len(errors) = 2
    /\ classes # <<>>
    /\ classes = call.classes_before
    /\ call.ret = FALSE

\* C9: for every class node, map_class returns a class record carrying the
\* class's own name and no base class, whatever its fields and callables
\* report; what they report is appended to the diagnostic log.
C9_ClassRecordAlwaysReturned ==
    call.op = "map_class" =>
        /\ call.ret # None
        /\ call.ret.kind = "DataTypeClass"
        /\ call.ret.name = call.node.name
        /\ call.ret.super = None
        /\ KeptLog

\* Both fields rejected (integer is four-state, string is unsupported) and a
\* callable whose body uses ===: an empty field list, three errors, a record.
C9_Witness ==
    /\ call.op = "map_class"
    /\ call.function_mapper
    /\ call.node = ClassOf(Str("c"), <<T_integer, T_string>>, <<Fn_check, Fn_name>>)
    /\ call.ret # None
    /\ call.ret.fields = <<>>
    /\ NumErrors(Appended) = 3

\* The field declarations of a class, in declaration order.
Properties(c) == SelectSeq(c.members, LAMBDA m : m.kind = "SymbolKind.ClassProperty")

\* C10: a class whose N field declarations all have a two-state type (bit,
\* bit with a vector range, byte, shortint, int, longint) lowers to exactly N
\* fields in declaration order, each with the declared name and a DataTypeInt
\* of the declared type's width; a class of such fields alone reports nothing.
C10_TwoStateFieldsInOrder ==
    (/\ call.op = "map_class"
     /\ \A i \in DOMAIN Properties(call.node) :
            Properties(call.node)[i].type \in TwoStateTypes) =>
        /\ call.ret # None
        /\ Len(call.ret.fields) = Len(Properties(call.node))
        /\ \A i \in DOMAIN call.ret.fields :
            /\ call.ret.fields[i].name = Properties(call.node)[i].name
            /\ call.ret.fields[i].datatype.kind = "DataTypeInt"
            /\ call.ret.fields[i].datatype.bits = Properties(call.node)[i].type.bitWidth
        /\ (Len(Properties(call.node)) = Len(call.node.members) => Appended = <<>>)

\* bit [7:0] f1; longint f2 lowered on a log that holds an earlier report.
C10_Witness ==
    /\ call.op = "map_class"
    /\ call.node = ClassOf(Str("c"), <<T_bit8, T_longint>>, <<>>)
    /\ Len(call.pre) >= 1
    /\ errors = call.pre
    /\ Len(call.ret.fields) = 2
    /\ call.ret.fields[1] = Field(Name_f(1), DataTypeInt(8, FALSE))
    /\ call.ret.fields[2] = Field(Name_f(2), DataTypeInt(64, TRUE))

\* C11: every callable whose kind is SubroutineKind.Task lowers to a Function
\* with is_async true, and every callable of kind SubroutineKind.Function to
\* one with is_async false.
C11_TaskIsAsync ==
    call.op = "map_function" =>
        /\ call.ret # None
        /\ call.ret.kind = "Function"
        /\ call.ret.is_async = (call.node.subroutineKind = K_Task)

\* A virtual task with arguments and a body: is_async is true.
C11_Witness ==
    /\ call.op = "map_function"
    /\ call.node.subroutineKind = K_Task
    /\ call.node.flags = F_Virtual
    /\ call.node.arguments # <<>>
    /\ call.node.body = Return(Add_a_42)
    /\ call.ret # None
    /\ call.ret.is_async

\* The log after a step extends the log before it.
Extends(after, before) ==
    Len(after) >= Len(before) /\ SubSeq(after, 1, Len(before)) = before

\* C13: over any sequence of log operations, error() and warning() each append
\* exactly one entry of their severity at the end, has_errors(), get_errors(),
\* get_warnings() and report() leave the log as it is, and entries go away
\* only by clear(), after which has_errors() is false and get_errors() and
\* get_warnings() are empty.
C13_LogOnlyGrows ==
    [][/\ call'.op \in {"error", "warning"} =>
            /\ Len(errors') = Len(errors) + 1
            /\ Extends(errors', errors)
            /\ errors'[Len(errors')].severity =
                 (IF call'.op = "error" THEN "ERROR" ELSE "WARNING")
       /\ call'.op \in QueryOps => errors' = errors
       /\ call'.op = "clear" =>
            /\ errors' = <<>>
            /\ ~has_errors(errors')
            /\ get_errors(errors') = <<>>
            /\ get_warnings(errors') = <<>>
       /\ ~Extends(errors', errors) => call'.op = "clear"]_vars

\* clear() on a full log that held errors and warnings.
C13_Witness ==
    /\ call.op = "clear"
    /\ Len(call.pre) >= 3
    /\ get_errors(call.pre) # <<>>
    /\ get_warnings(call.pre) # <<>>
    /\ errors = <<>>

\* `sub` is `s` with some entries left out, the others in their order.
IsSubsequence(sub, s) ==
    \E f \in [1..Len(sub) -> 1..Len(s)] :
        /\ \A i \in 1..Len(sub) : sub[i] = s[f[i]]
        /\ \A i \in 1..Len(sub) : \A j \in 1..Len(sub) : i < j => f[i] < f[j]

\* Where the blank lines of a text begin, and the k-th of them.
BlankLines(text) ==
    {i \in 1..(Len(text) - 1) : text[i] = "\n" /\ text[i + 1] = "\n"}
BlankLine(text, k) ==
    CHOOSE i \in BlankLines(text) : Cardinality({j \in BlankLines(text) : j < i}) = k - 1

\* The k-th of the parts of a text that blank lines separate.
Part(text, k) ==
    SubSeq(text,
           IF k = 1 THEN 1 ELSE BlankLine(text, k - 1) + 2,
           IF k = Cardinality(BlankLines(text)) + 1 THEN Len(text)
           ELSE BlankLine(text, k) - 1)

\* C14: get_errors() and get_warnings() are subsequences of the log, in its
\* order, one holding the error-severity entries and the other the rest, so
\* that every entry is in exactly one of them; report() holds one part per
\* entry, in append order, the parts separated by a blank line, each part
\* starting with its entry's severity and message.
C14_PartitionAndReportOrder ==
    /\ IsSubsequence(get_errors(errors), errors)
    /\ IsSubsequence(get_warnings(errors), errors)
    /\ Len(get_errors(errors)) + Len(get_warnings(errors)) = Len(errors)
    /\ \A i \in DOMAIN get_errors(errors) : get_errors(errors)[i].severity = "ERROR"
    /\ \A i \in DOMAIN get_warnings(errors) : get_warnings(errors)[i].severity # "ERROR"
    /\ (call.op = "report" /\ errors # <<>>) =>
        /\ Cardinality(BlankLines(call.ret)) = Len(errors) - 1
        /\ \A k \in DOMAIN errors :
            LET head == <<errors[k].severity, ": ">> \o errors[k].message IN
            SubSeq(Part(call.ret, k), 1, Len(head)) = head

\* report() of a log of three entries, errors and warnings interleaved, one of
\* them with a location, a context and a suggestion.
C14_Witness ==
    /\ call.op = "report"
    /\ Len(errors) = 3
    /\ errors[1].severity = "WARNING"
    /\ errors[2] \in Located
    /\ errors[2].severity = "ERROR"
    /\ errors[2].column # NoneVal
    /\ errors[3].severity = "WARNING"
    /\ Len(get_errors(errors)) = 1
    /\ Len(get_warnings(errors)) = 2

\* Sub-expressions that do not lower: a real literal (no such expression kind
\* in the dispatch) and a === comparison (four-state operator).
FailingOperands == {Lit_real, BinaryOp("BinaryOperator.CaseEquality", Var_a, Var_b)}

\* The last call lowered a member access, a subscript or a call that carries
\* its sub-expressions.
StructuralCall ==
    /\ call.op = "map_expression"
    /\ call.node # None
    /\ hasattr(call.node, "kind")
    /\ \/ call.node.kind = "ExpressionKind.MemberAccess" /\ hasattr(call.node, "value")
       \/ /\ call.node.kind = "ExpressionKind.ElementSelect"
          /\ hasattr(call.node, "value") /\ hasattr(call.node, "selector")
       \/ call.node.kind = "ExpressionKind.Call" /\ hasattr(call.node, "arguments")

\* C15: when the base of a member access, the base or the index of a
\* subscript, or any argument of a call fails to lower, the containing
\* expression is None; a call that does lower carries one lowered argument per
\* argument of the node.
C15_AbsencePropagates ==
    StructuralCall =>
        /\ (call.node.kind = "ExpressionKind.MemberAccess"
              /\ call.node.value \in FailingOperands) => call.ret = None
        /\ (call.node.kind = "ExpressionKind.ElementSelect"
              /\ (call.node.value \in FailingOperands
                    \/ call.node.selector \in FailingOperands)) => call.ret = None
        /\ (call.node.kind = "ExpressionKind.Call"
              /\ \E i \in DOMAIN call.node.arguments :
                    call.node.arguments[i] \in FailingOperands) => call.ret = None
        /\ (call.node.kind = "ExpressionKind.Call" /\ call.ret # None) =>
                Len(call.ret.args) = Len(call.node.arguments)

\* The last call lowered a callable without a body: what it appended to the
\* log is what its return type made it report.
BodilessFunctionCall ==
    /\ call.op = "map_function"
    /\ hasattr(call.node, "body")
    /\ call.node.body = None

\* The last call lowered to a Function whose return type is None.
LoweredWithoutReturnType ==
    /\ call.ret # None
    /\ call.ret.kind = "Function"
    /\ call.ret.returns = None

\* C16: a non-void return type for which the type mapper has no rule (string,
\* time) is reported as a warning only, no error-severity entry is appended
\* for it, and the function lowers with returns None; a void return type gives
\* returns None and no diagnostic.
C16_UnclassifiedReturnTypeWarnsOnly ==
    /\ (call.op = "map_function" /\ call.node.returnType \in {T_string, T_time, T_void}) =>
            LoweredWithoutReturnType
    /\ (BodilessFunctionCall /\ call.node.returnType \in {T_string, T_time}) =>
            /\ KeptLog
            /\ Len(Appended) = 1
            /\ Appended[1].severity = "WARNING"
    /\ (BodilessFunctionCall /\ call.node.returnType = T_void) => errors = call.pre

\* What one statement of StmtNodes contributes to the result, stated from the
\* statement alone: the IR statements it stands for, none when it cannot be
\* lowered.
Contribution(sv_stmt) ==
    CASE sv_stmt = Break -> <<StmtBreak>>
      [] sv_stmt = Continue -> <<StmtContinue>>
      [] sv_stmt = Return(None) -> <<StmtReturn(None)>>
      [] sv_stmt = Stmt_assign ->
            <<StmtAssign(<<ExprRefLocal(Str("a"))>>, ExprConstant(IntValue(42)))>>
      [] sv_stmt = Block_mixed -> <<StmtBreak, StmtContinue>>
      [] sv_stmt \in {WaitStatement, Stmt_caseeq, Block_empty} -> <<>>

\* The statements of StmtNodes that report an error when lowered.
Failures(sv_stmt) == IF sv_stmt \in {WaitStatement, Stmt_caseeq, Block_mixed} THEN 1 ELSE 0

RECURSIVE Contributions(_)
Contributions(sv_stmts) ==
    IF sv_stmts = <<>> THEN <<>>
    ELSE Contributions(SubSeq(sv_stmts, 1, Len(sv_stmts) - 1))
            \o Contribution(sv_stmts[Len(sv_stmts)])

RECURSIVE TotalFailures(_)
TotalFailures(sv_stmts) ==
    IF sv_stmts = <<>> THEN 0
    ELSE TotalFailures(SubSeq(sv_stmts, 1, Len(sv_stmts) - 1))
            + Failures(sv_stmts[Len(sv_stmts)])

\* C17: map_statements returns the in-order concatenation of what each input
\* statement lowers to: the items of a nested list result are spliced in place,
\* a statement that cannot be lowered contributes nothing and reports one
\* error, and the statements after it are still lowered.
C17_InOrderSplicedConcatenation ==
    /\ (call.op = "map_statements" /\ hasattr(call.node, "iterable")) =>
            /\ call.ret = Contributions(call.node.iterable)
            /\ KeptLog
            /\ Len(Appended) = TotalFailures(call.node.iterable)
            /\ \A i \in 1..Len(Appended) : Appended[i].severity = "ERROR"
    /\ (call.op = "map_statements" /\ call.node \in StmtNodes) =>
            /\ call.ret = Contribution(call.node)
            /\ Len(Appended) = Failures(call.node)
    /\ (call.op = "map_statements" /\ call.node = None) =>
            call.ret = <<>> /\ errors = call.pre

\* A failing statement first, then a block whose items are spliced, then a
\* plain statement: all of the later ones are in the result.
C17_Witness ==
    /\ call.op = "map_statements"
    /\ hasattr(call.node, "iterable")
    /\ call.node.iterable = <<WaitStatement, Block_mixed, Stmt_assign>>
    /\ Len(call.ret) = 3
    /\ call.ret[1] = StmtBreak
    /\ call.ret[3].kind = "StmtAssign"
    /\ Len(Appended) = 2

\* The last call was a public lowering operation handed a node whose
\* inspection raises.
RaisingCall ==
    \/ call.op = "map_expression" /\ call.node \in RaisingExprs
    \/ call.op = "map_statement" /\ call.node \in RaisingStmts

\* The last entry of the log is an error that carries the text of the
\* exception.
LastIsMappingError ==
    /\ errors # <<>>
    /\ errors[Len(errors)].severity = "ERROR"
    /\ Contains(errors[Len(errors)].message, Str("object has no attribute '"))

Callables(c) == SelectSeq(c.members, LAMBDA m : m.kind = "SymbolKind.Subroutine")

\* The names of a sequence of named things, in order.
Names(things) == [i \in DOMAIN things |-> things[i].name]

\* An entry the last call appended is the four-state operator error with the
\* two-state suggestion.
FourStateOperatorReported ==
    \E e \in DOMAIN Appended :
        /\ Appended[e].severity = "ERROR"
        /\ Appended[e].message =
                <<"4-state operator not supported: ", "BinaryOperator.CaseEquality">>
        /\ Appended[e].suggestion = Str("Use 2-state operators (==, !=)")

\* C19: when a class of the pass has a function whose return expression uses
\* four-state equality (a === b), that expression is not lowered (the return
\* statement carries no value) and the error with the two-state suggestion is
\* appended, while every class of the pass is appended to the result list in
\* source order and every class record holds all of its callables in
\* declaration order.
C19_SiblingsStillLowered ==
    OrchestratorCall =>
        \A k \in DOMAIN call.lowered :
            (\E i \in DOMAIN call.lowered[k].members : call.lowered[k].members[i] = Fn_check) =>
                /\ FourStateOperatorReported
                /\ call.ret = FALSE
                /\ Len(classes) = Len(call.classes_before) + Len(call.lowered)
                /\ \A j \in DOMAIN call.lowered :
                      LET ir_class == classes[Len(call.classes_before) + j] IN
                      /\ ir_class.name = call.lowered[j].name
                      /\ Names(ir_class.functions) = Names(Callables(call.lowered[j]))
                      /\ \A f \in DOMAIN ir_class.functions :
                            ir_class.functions[f].name = Str("check") =>
                                ir_class.functions[f].body = <<StmtReturn(None)>>

\* checker (check with a === b, then get) and my_seq lowered in one pass: both
\* records are appended in order, checker holds check and get, and get's
\* return expression is lowered.
C19_Witness ==
    /\ OrchestratorCall
    /\ call.lowered = <<C_check, C_seq>>
    /\ FourStateOperatorReported
    /\ Len(classes) >= 2
    /\ classes[Len(classes) - 1].name = Str("checker")
    /\ classes[Len(classes)].name = Str("my_seq")
    /\ Names(classes[Len(classes) - 1].functions) = <<Str("check"), Str("get")>>
    /\ classes[Len(classes) - 1].functions[2].body[1].value.kind = "ExprBin"
    /\ Names(classes[Len(classes)].functions) = <<Str("run")>>

\* The names of the field declarations of a class whose declared type is one
\* of the two-state integer types.
TwoStateFieldNames(c) ==
    {c.members[i].name : i \in {j \in DOMAIN c.members :
        /\ c.members[j].kind = "SymbolKind.ClassProperty"
        /\ c.members[j].type \in TwoStateTypes}}

\* C20: every field of a class record that map_class produced has a data type
\* that is not None and is a DataTypeInt of positive width with a signedness;
\* no field stands for a declaration with a four-state or non-integral type.
C20_FieldsAreTwoStateIntegers ==
    (call.op = "map_class" /\ call.ret # None) =>
        \A i \in DOMAIN call.ret.fields :
            /\ call.ret.fields[i].datatype # None
            /\ call.ret.fields[i].datatype.kind = "DataTypeInt"
            /\ call.ret.fields[i].datatype.bits \in Nat \ {0}
            /\ call.ret.fields[i].datatype.signed \in BOOLEAN
            /\ call.ret.fields[i].name \in TwoStateFieldNames(call.node)

\* string f1; bit [7:0] f2: the record holds f2 alone, eight bits wide, and an
\* error was appended for f1.
C20_Witness ==
    /\ call.op = "map_class"
    /\ call.node = ClassOf(Str("c"), <<T_string, T_bit8>>, <<>>)
    /\ call.ret # None
    /\ call.ret.fields = <<Field(Name_f(2), DataTypeInt(8, FALSE))>>
    /\ Len(Appended) = 1
    /\ Appended[1].severity = "ERROR"

\* C21: for every type name that, in lower case, is neither a four-state name
\* nor a name of the two-state table, map_builtin_type returns None and
\* appends exactly one entry: an error whose message is
\* "Unsupported type '<name as written>'", without context or suggestion.
C21_UnsupportedTypeRejected ==
    (call.op = "map_builtin_type"
        /\ lower(call.type_name) \notin FourStateWords \cup TwoStateWords) =>
        /\ call.ret = None
        /\ KeptLog
        /\ Len(Appended) = 1
        /\ Appended[1].severity = "ERROR"
        /\ Appended[1].message = Str("Unsupported type '") \o call.type_name \o Str("'")
        /\ Appended[1].context = NoneStr
        /\ Appended[1].suggestion = NoneStr

\* String, with a width and a signedness that could have made a type.
C21_Witness ==
    /\ call.op = "map_builtin_type"
    /\ call.type_name = <<"S","t","r","i","n","g">>
    /\ call.width = Some(8)
    /\ call.signed = Some(FALSE)
    /\ call.ret = None
    /\ Len(call.pre) = 1
    /\ Len(errors) = 2

\* The expression kinds map_expression has a branch for.
HandledExpressionKinds ==
    {"ExpressionKind.BinaryOp", "ExpressionKind.UnaryOp", "ExpressionKind.IntegerLiteral",
     "ExpressionKind.StringLiteral", "ExpressionKind.NamedValue",
     "ExpressionKind.MemberAccess", "ExpressionKind.ElementSelect", "ExpressionKind.Call",
     "ExpressionKind.Conversion"}

\* The statement kinds map_statement has a branch for.
HandledStatementKinds ==
    {"StatementKind.ExpressionStatement", "StatementKind.Return",
     "StatementKind.Conditional", "StatementKind.ForLoop", "StatementKind.WhileLoop",
     "StatementKind.DoWhileLoop", "StatementKind.Break", "StatementKind.Continue",
     "StatementKind.Block", "StatementKind.List"}

\* The last call was map_expression or map_statement on a node that has a
\* kind, and the kind is not one of the handled kinds.
UnhandledKindCall ==
    \/ /\ call.op = "map_expression"
       /\ call.node # None
       /\ hasattr(call.node, "kind")
       /\ call.node.kind \notin HandledExpressionKinds
    \/ /\ call.op = "map_statement"
       /\ call.node # None
       /\ hasattr(call.node, "kind")
       /\ call.node.kind \notin HandledStatementKinds

\* C22: map_expression on a node whose kind has no branch returns None and
\* appends exactly one error, "Unsupported expression kind: <kind>";
\* map_statement on a statement whose kind has no branch returns None and
\* appends exactly one error, "Unsupported statement kind: <kind>".
C22_DispatchIsTotal ==
    UnhandledKindCall =>
        /\ call.ret = None
        /\ KeptLog
        /\ Len(Appended) = 1
        /\ Appended[1].severity = "ERROR"
        /\ Appended[1].message =
                (IF call.op = "map_expression"
                 THEN <<"Unsupported expression kind: ", call.node.kind>>
                 ELSE <<"Unsupported statement kind: ", call.node.kind>>)

\* A case statement handed to map_statement on a log that holds a warning.
C22_Witness ==
    /\ call.op = "map_statement"
    /\ call.node.kind = "StatementKind.Case"
    /\ call.ret = None
    /\ Len(call.pre) = 1
    /\ call.pre[1].severity = "WARNING"
    /\ Len(errors) = 2

\* What a plain expression stands for in the IR, stated from the expression.
LoweredTo(e) ==
    CASE e = Var_a -> ExprRefLocal(Str("a"))
      [] e = Var_b -> ExprRefLocal(Str("b"))
      [] e = Lit_42 -> ExprConstant(IntValue(42))
      [] e = Add_a_42 ->
            ExprBin(ExprRefLocal(Str("a")), BinOp("Add"), ExprConstant(IntValue(42)))
      [] e = Call_f_a -> ExprCall(ExprRefLocal(Str("f")), <<ExprRefLocal(Str("a"))>>, <<>>)

\* The last call was map_statement on an expression statement.
ExpressionStatementCall ==
    /\ call.op = "map_statement"
    /\ call.node # None
    /\ hasattr(call.node, "kind")
    /\ call.node.kind = "StatementKind.ExpressionStatement"
    /\ hasattr(call.node, "expr")

\* C23: an expression statement whose expression is an assignment lowers to a
\* StmtAssign whose targets are the lowered left side alone and whose value is
\* the lowered right side, and to nothing else; an expression statement over
\* any other expression lowers to a StmtExpr around the lowered expression.
\* Over plain expressions the statement is lowered and nothing is reported.
C23_AssignmentBecomesStmtAssign ==
    ExpressionStatementCall =>
        IF call.node.expr.kind = "ExpressionKind.Assignment"
        THEN /\ call.ret # None => call.ret.kind = "StmtAssign"
             /\ (call.node.expr.left \in PlainExprs /\ call.node.expr.right \in PlainExprs) =>
                    /\ call.ret = StmtAssign(<<LoweredTo(call.node.expr.left)>>,
                                             LoweredTo(call.node.expr.right))
                    /\ errors = call.pre
        ELSE /\ call.ret # None => call.ret.kind = "StmtExpr"
             /\ call.node.expr \in PlainExprs =>
                    /\ call.ret = StmtExpr(LoweredTo(call.node.expr))
                    /\ errors = call.pre

\* b = a + 42; lowered to an assignment with the one target b.
C23_Witness ==
    /\ ExpressionStatementCall
    /\ call.node.expr = Assignment(Var_b, Add_a_42)
    /\ call.ret.kind = "StmtAssign"
    /\ call.ret.targets = <<ExprRefLocal(Str("b"))>>
    /\ call.ret.value.kind = "ExprBin"

\* The last call was map_statement on a conditional whose first condition
\* is a < b or a.
PlainConditionalCall ==
    /\ call.op = "map_statement"
    /\ call.node \in CondStmts
    /\ call.node.conditions[1].expr \in {Lt_a_b, Var_a}

\* C24: a conditional lowers to a StmtIf whose test is the lowering of the
\* first condition, whose body is what the first condition's statement lowers
\* to and whose orelse is what the else clause lowers to, the empty sequence
\* when there is none; a second condition/body pair leaves no trace, neither
\* in the statement nor in the log.
C24_FirstConditionOnly ==
    PlainConditionalCall =>
        /\ call.ret # None
        /\ call.ret.kind = "StmtIf"
        /\ call.ret.test =
                (IF call.node.conditions[1].expr = Var_a
                 THEN ExprRefLocal(Str("a"))
                 ELSE ExprBin(ExprRefLocal(Str("a")), CmpOp("Lt"), ExprRefLocal(Str("b"))))
        /\ call.ret.body = Contribution(call.node.conditions[1].stmt)
        /\ call.ret.orelse =
                (IF call.node.elseClause = None THEN <<>>
                 ELSE Contribution(call.node.elseClause))
        /\ KeptLog
        /\ Len(Appended) =
                Failures(call.node.conditions[1].stmt)
                + (IF call.node.elseClause = None THEN 0 ELSE Failures(call.node.elseClause))

\* if (a < b) a = 42; else if (a === b) wait...; else continue; : the second
\* pair is ignored and nothing is reported.
C24_Witness ==
    /\ PlainConditionalCall
    /\ Len(call.node.conditions) = 2
    /\ call.node.elseClause = Continue
    /\ call.ret.kind = "StmtIf"
    /\ Len(call.ret.body) = 1
    /\ call.ret.body[1].kind = "StmtAssign"
    /\ call.ret.orelse = <<StmtContinue>>
    /\ errors = call.pre

\* The last call was map_statement on a for loop.
ForLoopCall ==
    /\ call.op = "map_statement"
    /\ call.node \in ForStmts

\* C25: a for loop always lowers to a StmtFor with target i and iterable range,
\* whatever its header; the body is what the loop's body statement lowers to;
\* the only entries appended are those of the body, so a header expression
\* that could not be lowered is not reported.
C25_ForLoopPlaceholderHeader ==
    ForLoopCall =>
        /\ call.ret = StmtFor(ExprRefLocal(Str("i")), ExprRefLocal(Str("range")),
                              IF call.node.body = None THEN <<>>
                              ELSE Contribution(call.node.body),
                              <<>>)
        /\ KeptLog
        /\ Len(Appended) = (IF call.node.body = None THEN 0 ELSE Failures(call.node.body))

\* for (1.5; a === b; 1.5) break; : the header could not be lowered, and the
\* loop is lowered with nothing reported.
C25_Witness ==
    /\ ForLoopCall
    /\ hasattr(call.node, "stopExpr")
    /\ call.node.stopExpr = CaseEq_a_b
    /\ call.node.initializers = <<Lit_real>>
    /\ call.node.body = Break
    /\ call.ret.kind = "StmtFor"
    /\ call.ret.body = <<StmtBreak>>
    /\ errors = call.pre

\* The value of each integer literal among the inputs, read off its text:
\* the decimal number where the text is one, 0 otherwise.
LiteralValue(sv_expr) ==
    CASE sv_expr = Lit_42 -> 42
      [] sv_expr = Lit_neg7 -> 0 - 7
      [] sv_expr = Lit_007 -> 7
      [] sv_expr = Lit_0 -> 0
      [] sv_expr \in {Lit_sized, Lit_hexFF, Lit_empty} -> 0

\* The last call was map_expression on an integer literal.
IntegerLiteralCall ==
    /\ call.op = "map_expression"
    /\ call.node # None
    /\ hasattr(call.node, "kind")
    /\ call.node.kind = "ExpressionKind.IntegerLiteral"

\* C26: an integer literal always lowers to an ExprConstant and appends
\* nothing; the value is the decimal number its text spells, and 0 when the
\* text is not a plain decimal number (32'd10, 8'hFF, the empty text).
C26_UnparsedLiteralIsZero ==
    IntegerLiteralCall =>
        /\ call.ret = ExprConstant(IntValue(LiteralValue(call.node)))
        /\ errors = call.pre

\* 32'd10 lowered on a log that holds an earlier report: the constant 0, no
\* new entry.
C26_Witness ==
    /\ IntegerLiteralCall
    /\ call.node = Lit_sized
    /\ call.ret = ExprConstant(IntValue(0))
    /\ Len(call.pre) = 1
    /\ errors = call.pre

\* C27: on one SVMapper every call keeps the log's earlier entries and the
\* result list's earlier classes in place, and a map_text / map_files call
\* that follows a call that returned False returns False too and appends no
\* class, whatever its source.
C27_FailureIsSticky ==
    [][/\ Extends(errors', errors)
       /\ Extends(classes', classes)
       /\ (OrchestratorCall /\ call.ret = FALSE) =>
            /\ call'.ret = FALSE
            /\ classes' = classes]_vars

\* After a pass that lowered two classes and returned False, a pass over a
\* clean source with one class returned False and appended nothing.
C27_Witness ==
    /\ OrchestratorCall
    /\ call.n = 2
    /\ call.source = Source(FALSE, <<>>, Root(<<C_packet>>))
    /\ call.ret = FALSE
    /\ Len(call.classes_before) = 2
    /\ classes = call.classes_before
    /\ errors = call.pre

\* The last call lowered a callable whose body is a return statement with a
\* value that cannot be lowered (a === b, a real literal).
FailedReturnCall ==
    /\ call.op = "map_function"
    /\ hasattr(call.node, "body")
    /\ call.node.body \in {Return(CaseEq_a_b), Return(Lit_real)}

\* C28: a return statement whose value cannot be lowered stays in the body as
\* a StmtReturn with value None, the body a bare return gives; the function is
\* lowered, and the failure shows as an error appended to the log.
C28_FailedReturnKept ==
    /\ FailedReturnCall =>
            /\ call.ret # None
            /\ call.ret.kind = "Function"
            /\ call.ret.body = <<StmtReturn(None)>>
            /\ KeptLog
            /\ \E i \in DOMAIN Appended : Appended[i].severity = "ERROR"
    /\ (call.op = "map_function" /\ hasattr(call.node, "body")
            /\ call.node.body = Return(None)) =>
            /\ call.ret.body = <<StmtReturn(None)>>
            /\ call.node.returnType \in {T_int, T_bit8, T_void} => errors = call.pre

\* task f(a, b); return a === b; endtask with an int return type: lowered,
\* with the return kept and exactly one error.
C28_Witness ==
    /\ FailedReturnCall
    /\ call.node.body = Return(CaseEq_a_b)
    /\ call.node.returnType = T_int
    /\ call.ret.kind = "Function"
    /\ call.ret.body = <<StmtReturn(None)>>
    /\ Len(Appended) = 1
    /\ Appended[1].severity = "ERROR"

\* The last call was map_expression or map_statement on a node that is not
\* None, and None came back.
AbsentForNode ==
    /\ call.op \in {"map_expression", "map_statement"}
    /\ call.node # None
    /\ call.ret = None

\* C29: whenever map_expression or map_statement is handed a node that is not
\* None and returns None, the call has appended at least one error to the log.
C29_NoSilentDrop ==
    AbsentForNode =>
        /\ KeptLog
        /\ \E i \in DOMAIN Appended : Appended[i].severity = "ERROR"

\* Expressions that lower to None with one error.
FailingTests == {CaseEq_a_b, Lit_real}

\* The last call was map_statement on a conditional or a loop whose test
\* does not lower, or on an assignment whose target does not lower.
FailedTestCall ==
    /\ call.op = "map_statement"
    /\ \/ call.node \in CondStmts /\ call.node.conditions[1].expr \in FailingTests
       \/ call.node \in LoopStmts /\ call.node.cond \in FailingTests
       \/ /\ call.node \in ExprStmts
          /\ call.node.expr.kind = "ExpressionKind.Assignment"
          /\ call.node.expr.left \in FailingTests

\* The expression the statement of the last call stops at.
StoppedAt ==
    IF call.node \in CondStmts THEN call.node.conditions[1].expr
    ELSE IF call.node \in LoopStmts THEN call.node.cond
    ELSE call.node.expr.left

\* C30: when the test of a conditional or of a while/do-while loop does not
\* lower, or the target of an assignment does not, the statement is None and
\* the one error of that test or target is all the call appends: nothing from
\* the then-body, the else-body, the loop body or the assigned value is
\* recorded.
C30_FailedTestSkipsBodies ==
    FailedTestCall =>
        /\ call.ret = None
        /\ KeptLog
        /\ Len(Appended) = 1
        /\ Appended[1].severity = "ERROR"
        /\ Appended[1].message =
                (IF StoppedAt = Lit_real
                 THEN Str("Unsupported expression kind: ") \o Str("ExpressionKind.RealLiteral")
                 ELSE Str("4-state operator not supported: ")
                        \o Str("BinaryOperator.CaseEquality"))

\* while (a === b) begin break; wait(...); continue; end on a log that
\* held an entry: None came back and the operator's error is the one new
\* entry.
C30_Witness ==
    /\ call.op = "map_statement"
    /\ call.node = WhileLoop(CaseEq_a_b, Block_mixed)
    /\ call.ret = None
    /\ Len(call.pre) = 1
    /\ Len(errors) = 2

====
